---- MODULE Spec2Model ----
(***************************************************************************)
(* naslock: unlock a TrueNAS dataset with a secret from a KeePass store.   *)
(*                                                                         *)
(* The model follows src/main.rs (unlock_volume, StoredAuth) and           *)
(* src/truenas.rs (unlock_dataset, parse_unlock_response, wait_for_job,    *)
(* get_job, fetch_job_via_post, fetch_job_via_get, parse_job_response,     *)
(* apply_auth), and src/keepass_store.rs (find_entry, parse_selector,      *)
(* parse_uuid, entry_field, require_entry, ensure_non_empty).              *)
(*                                                                         *)
(* Strings that the code trims, parses or prints are sequences of          *)
(* one-character strings; Option<T> is a sequence of length 0 (None) or 1  *)
(* (Some); f64 values are counted in halves (Half units per 1.0).          *)
(***************************************************************************)
EXTENDS Integers, Sequences, FiniteSets, TLC

VARIABLES
    pc,             \* position of the invocation: resolve, unlock, post, get, sleep, done
    cfg,            \* what the invocation is configured with and the store it opens
    stored_auth,    \* Option<StoredAuth>: the credential unlock_volume resolved
    unlock_secret,  \* Option<UnlockSecret>: the secret unlock_volume resolved
    requests,       \* every HTTP request issued so far, in order
    headers,        \* the Authorization header of each of these requests
    last_response,  \* Option: the response to the latest request
    result,         \* Option<UnlockResult>: what unlock_dataset returned
    post_result,    \* Option<Result<JobInfo>> of the current get_job call
    get_result,     \* Option<Result<JobInfo>> of the current get_job call
    job,            \* Option<JobInfo>: the job get_job returned to the loop
    last_progress,  \* Option<(Option<f64>, Option<String>)> of wait_for_job
    reported,       \* history of the tuples assigned to last_progress
    stdout,         \* lines printed with println!
    stderr,         \* lines printed with eprintln!
    wait_result,    \* Pending, or the Result<JobInfo> wait_for_job returned
    exit,           \* Option<Result<()>>: what unlock_volume returned
    polls,          \* number of get_job calls made by wait_for_job
    sleeps,         \* number of thread::sleep calls made by wait_for_job
    clock,          \* seconds spent sleeping
    call,           \* Option: a function of the program and its arguments
    ret             \* Option: what that function returned

vars == <<pc, cfg, stored_auth, unlock_secret, headers, requests, last_response, result, post_result, get_result, job, last_progress,
          reported, stdout, stderr, wait_result, exit, polls, sleeps, clock,
          call, ret>>

----------------------------------------------------------------------------
(* Bounds of the model                                                     *)

MaxPolls == 3

----------------------------------------------------------------------------
(* Option and Result                                                       *)

None == <<>>
Some(v) == <<v>>
IsSome(o) == Len(o) = 1
IsNone(o) == Len(o) = 0
Unwrap(o) == o[1]

\* Option::or
OptionOr(a, b) == IF IsSome(a) THEN a ELSE b

\* Option::unwrap_or_else
UnwrapOr(o, d) == IF IsSome(o) THEN o[1] ELSE d

Ok(v) == [ok |-> TRUE, v |-> v]
Err(e) == [ok |-> FALSE, v |-> e]
IsOk(r) == r.ok
IsErr(r) == ~r.ok

----------------------------------------------------------------------------
(* Strings                                                                 *)

Whitespace == {" ", "\t", "\n"}

RECURSIVE TrimStart(_)
TrimStart(s) ==
    IF s # <<>> /\ Head(s) \in Whitespace THEN TrimStart(Tail(s)) ELSE s

RECURSIVE TrimEnd(_)
TrimEnd(s) ==
    IF s # <<>> /\ s[Len(s)] \in Whitespace
    THEN TrimEnd(SubSeq(s, 1, Len(s) - 1))
    ELSE s

\* str::trim
Trim(s) == TrimEnd(TrimStart(s))

Digits == <<"0", "1", "2", "3", "4", "5", "6", "7", "8", "9">>
IsDigit(c) == \E i \in 1..10 : Digits[i] = c
DigitVal(c) == (CHOOSE i \in 1..10 : Digits[i] = c) - 1

RECURSIVE DigitsVal(_)
DigitsVal(s) ==
    IF s = <<>> THEN 0
    ELSE 10 * DigitsVal(SubSeq(s, 1, Len(s) - 1)) + DigitVal(s[Len(s)])

\* str::parse::<i64>: an optional sign, then one or more decimal digits and
\* nothing else.  Option<i64>.
ParseI64(s) ==
    LET signed == s # <<>> /\ Head(s) \in {"+", "-"}
        body == IF signed THEN Tail(s) ELSE s
    IN  IF body # <<>> /\ \A i \in 1..Len(body) : IsDigit(body[i])
        THEN Some(IF signed /\ Head(s) = "-" THEN 0 - DigitsVal(body)
                  ELSE DigitsVal(body))
        ELSE None

RECURSIVE NatToString(_)
NatToString(n) ==
    IF n < 10 THEN <<Digits[n + 1]>>
    ELSE NatToString(n \div 10) \o <<Digits[(n % 10) + 1]>>

\* i64::to_string
IntToString(n) == IF n < 0 THEN <<"-">> \o NatToString(0 - n) ELSE NatToString(n)

S_SUCCESS == <<"S", "U", "C", "C", "E", "S", "S">>
S_FAILED == <<"F", "A", "I", "L", "E", "D">>
S_ABORTED == <<"A", "B", "O", "R", "T", "E", "D">>
S_RUNNING == <<"R", "U", "N", "N", "I", "N", "G">>
S_job_failed == <<"j", "o", "b", " ", "f", "a", "i", "l", "e", "d">>

----------------------------------------------------------------------------
(* serde_json::Value                                                       *)
(* A value is a record with one field, named after its variant; an object  *)
(* is a function from its keys to values; a float is counted in halves.    *)

Half == 2

JNull == [null |-> 0]
JBool(b) == [bool |-> b]
JInt(n) == [int |-> n]
JFloat(h) == [float |-> h]
JStr(s) == [str |-> s]
JArr(a) == [arr |-> a]
JObj(f) == [obj |-> f]

\* The variant of a value and what it holds.
Kind(v) == CHOOSE k \in DOMAIN v : TRUE
Val(v) == v[Kind(v)]

\* The object with the given set of <<key, value>> pairs.
MkObj(pairs) ==
    [k \in {p[1] : p \in pairs} |-> (CHOOSE p \in pairs : p[1] = k)[2]]

\* A <<key, value>> pair when the Option holds a value, nothing otherwise.
Field(key, opt) == {<<key, opt[i]>> : i \in 1..Len(opt)}

\* Value::as_i64, as_f64, as_str, as_bool, as_array, as_object
AsI64(v) == IF Kind(v) = "int" THEN Some(Val(v)) ELSE None
AsF64(v) ==
    IF Kind(v) = "int" THEN Some(Half * Val(v))
    ELSE IF Kind(v) = "float" THEN Some(Val(v)) ELSE None
AsStr(v) == IF Kind(v) = "str" THEN Some(Val(v)) ELSE None
AsBool(v) == IF Kind(v) = "bool" THEN Some(Val(v)) ELSE None
AsArray(v) == IF Kind(v) = "arr" THEN Some(Val(v)) ELSE None
AsObject(v) == IF Kind(v) = "obj" THEN Some(Val(v)) ELSE None

\* Map::get
Get(map, key) == IF key \in DOMAIN map THEN Some(map[key]) ELSE None

\* Option::and_then
AndThen(o, F(_)) == IF IsSome(o) THEN F(o[1]) ELSE None

\* A response body as serde_json::from_str sees it: text that is not a JSON
\* document (raw holds the text), or a JSON document (json holds its value).
BText(s) == [json |-> None, raw |-> s]
BJson(v) == [json |-> Some(v), raw |-> <<>>]

\* text.trim() of a body
TrimBody(b) == [json |-> b.json, raw |-> Trim(b.raw)]

\* Every object key of the model, in the order a sorted map iterates.
SortedKeys ==
    <<"code", "description", "error", "exception", "failed", "id", "job_id",
      "locked", "message", "percent", "progress", "state", "tank/a", "tank/b",
      "unlocked">>

Keys(map) == SelectSeq(SortedKeys, LAMBDA k : k \in DOMAIN map)

\* Display of a float counted in halves, as serde_json prints it.
FloatToString(h) ==
    (IF h < 0 THEN <<"-">> ELSE <<>>)
    \o NatToString((IF h < 0 THEN 0 - h ELSE h) \div Half)
    \o <<".">> \o (IF h % Half = 0 THEN <<"0">> ELSE <<"5">>)

\* Value::to_string: the compact JSON text.  An object key is kept as one
\* element of the text.
RECURSIVE JsonToString(_)
RECURSIVE JoinItems(_)
RECURSIVE JoinMembers(_, _)
JoinItems(items) ==
    IF items = <<>> THEN <<>>
    ELSE JsonToString(Head(items))
         \o (IF Tail(items) = <<>> THEN <<>> ELSE <<",">> \o JoinItems(Tail(items)))
JoinMembers(map, keys) ==
    IF keys = <<>> THEN <<>>
    ELSE <<"\"", Head(keys), "\"", ":">> \o JsonToString(map[Head(keys)])
         \o (IF Tail(keys) = <<>> THEN <<>>
             ELSE <<",">> \o JoinMembers(map, Tail(keys)))
JsonToString(v) ==
    CASE Kind(v) = "null" -> <<"n", "u", "l", "l">>
      [] Kind(v) = "bool" -> IF Val(v) THEN <<"t", "r", "u", "e">>
                         ELSE <<"f", "a", "l", "s", "e">>
      [] Kind(v) = "int" -> IntToString(Val(v))
      [] Kind(v) = "float" -> FloatToString(Val(v))
      [] Kind(v) = "str" -> <<"\"">> \o Val(v) \o <<"\"">>
      [] Kind(v) = "arr" -> <<"[">> \o JoinItems(Val(v)) \o <<"]">>
      [] Kind(v) = "obj" -> <<"{">> \o JoinMembers(Val(v), Keys(Val(v))) \o <<"}">>

----------------------------------------------------------------------------
(* anyhow::Error: the outermost message and, under a context, its source.  *)
(* Formatting an error with {} prints the outermost message only.          *)

Error(kind, msg, source) == [kind |-> kind, msg |-> msg, source |-> source]
Display(e) == [kind |-> e.kind, msg |-> e.msg]

\* StatusCode::is_success
IsSuccess(status) == status >= 200 /\ status <= 299

----------------------------------------------------------------------------
(* Job status records                                                      *)

\* Option<JobInfo>
parse_job_info(value) ==
    LET obj == AsObject(value) IN
    IF IsNone(obj) THEN None ELSE
    LET map == Unwrap(obj)
        id == AndThen(Get(map, "id"), AsI64)
        progress == AndThen(Get(map, "progress"), AsObject)
    IN  IF IsNone(id) THEN None ELSE
        Some([id |-> Unwrap(id),
              state |-> AndThen(Get(map, "state"), AsStr),
              error |-> AndThen(Get(map, "error"), AsStr),
              exception |-> AndThen(Get(map, "exception"), AsStr),
              progress_percent |->
                  IF IsSome(progress)
                  THEN AndThen(Get(Unwrap(progress), "percent"), AsF64)
                  ELSE None,
              progress_description |->
                  IF IsSome(progress)
                  THEN AndThen(Get(Unwrap(progress), "description"), AsStr)
                  ELSE None])

\* JobWithId without the filter on the id.
JobWithAnyId(value, job_id) == parse_job_info(value)

\* parse_job_info(item).filter(|j| j.id == job_id)
JobWithId(value, job_id) ==
    LET j == parse_job_info(value)
    IN  IF IsSome(j) /\ Unwrap(j).id = job_id THEN j ELSE None

\* Option<JobInfo>
extract_job(value, job_id) ==
    IF Kind(value) = "arr" THEN
        LET hits == {i \in 1..Len(Val(value)) : IsSome(JobWithId(Val(value)[i], job_id))}
        IN  IF hits = {} THEN None
            ELSE JobWithId(Val(value)[CHOOSE i \in hits : \A k \in hits : i <= k], job_id)
    ELSE IF Kind(value) = "obj" THEN JobWithId(value, job_id)
    ELSE None

\* Result<JobInfo>
parse_job_response(body, job_id) ==
    IF IsNone(body.json)
    THEN Err(Error("ResponseParseError", [text |-> Trim(body.raw)], Some("serde_json")))
    ELSE LET found == extract_job(Unwrap(body.json), job_id)
         IN  IF IsSome(found) THEN Ok(Unwrap(found))
             ELSE Err(Error("JobNotFound", [job_id |-> job_id], None))

\* The part of fetch_job_via_post and fetch_job_via_get after the request
\* was built: send, read the body, check the status, parse.  Result<JobInfo>
fetch_job(response, job_id) ==
    IF response.kind = "send_error"
    THEN Err(Error("TransportError", [text |-> "failed to query job status"],
                   Some("reqwest")))
    ELSE IF response.kind = "body_error"
    THEN Err(Error("TransportError",
                   [text |-> "failed to read job status response body"],
                   Some("reqwest")))
    ELSE IF ~IsSuccess(response.status)
    THEN Err(Error("ApiError",
                   [status |-> response.status, body |-> TrimBody(response.body)],
                   None))
    ELSE parse_job_response(response.body, job_id)

----------------------------------------------------------------------------
(* Unlock                                                                  *)

\* UnlockResult::default()
DefaultUnlockResult ==
    [job_id |-> None, unlocked |-> <<>>, failed |-> <<>>, message |-> None]

\* The strings of a JSON array, in order.
StringItems(items) ==
    LET strs == SelectSeq(items, LAMBDA v : Kind(v) = "str")
    IN  [i \in 1..Len(strs) |-> Val(strs[i])]

\* The (name, reason) pairs of a failed map; a reason that is not a string
\* is stringified.
FailedPairs(map) ==
    LET keys == Keys(map)
    IN  [i \in 1..Len(keys) |->
            <<keys[i],
              IF Kind(map[keys[i]]) = "str" THEN Val(map[keys[i]])
              ELSE JsonToString(map[keys[i]])>>]

\* UnlockFromObject when the four ifs are chained with else.
UnlockFromObjectExclusive(map) ==
    LET job_id == AndThen(Get(map, "job_id"), AsI64)
        unlocked == AndThen(Get(map, "unlocked"), AsArray)
        failed == AndThen(Get(map, "failed"), AsObject)
        message == AndThen(Get(map, "message"), AsStr)
    IN  IF IsSome(job_id)
        THEN [DefaultUnlockResult EXCEPT !.job_id = job_id]
        ELSE IF IsSome(unlocked) /\ StringItems(Unwrap(unlocked)) # <<>>
        THEN [DefaultUnlockResult EXCEPT !.unlocked = StringItems(Unwrap(unlocked))]
        ELSE IF IsSome(failed) /\ FailedPairs(Unwrap(failed)) # <<>>
        THEN [DefaultUnlockResult EXCEPT !.failed = FailedPairs(Unwrap(failed))]
        ELSE [DefaultUnlockResult EXCEPT !.message = message]

\* The Ok(Value::Object(map)) arm of parse_unlock_response: four ifs, one
\* for each key, none of them with an else.
UnlockFromObject(map) ==
    LET unlocked == AndThen(Get(map, "unlocked"), AsArray)
        failed == AndThen(Get(map, "failed"), AsObject)
    IN  [job_id |-> AndThen(Get(map, "job_id"), AsI64),
         unlocked |-> IF IsSome(unlocked) THEN StringItems(Unwrap(unlocked)) ELSE <<>>,
         failed |-> IF IsSome(failed) THEN FailedPairs(Unwrap(failed)) ELSE <<>>,
         message |-> AndThen(Get(map, "message"), AsStr)]

\* UnlockFromString when the text is never parsed as a job id.
UnlockFromStringAsMessage(text) == [DefaultUnlockResult EXCEPT !.message = Some(text)]

\* The Ok(Value::String(text)) arm.
UnlockFromString(text) ==
    IF IsSome(ParseI64(Trim(text)))
    THEN [DefaultUnlockResult EXCEPT !.job_id = ParseI64(Trim(text))]
    ELSE [DefaultUnlockResult EXCEPT !.message = Some(text)]

\* Result<UnlockResult>.  The arms of the match on the parsed body: an
\* object, a number (one that is no i64 is printed), a string, any other
\* value (null, a boolean, an array), and a body that is no JSON document.
parse_unlock_response(body) ==
    IF IsNone(body.json) THEN
        LET trimmed == Trim(body.raw) IN
        IF trimmed = <<>> THEN Ok(DefaultUnlockResult)
        ELSE IF IsSome(ParseI64(trimmed))
        THEN Ok([DefaultUnlockResult EXCEPT !.job_id = ParseI64(trimmed)])
        ELSE Ok([DefaultUnlockResult EXCEPT !.message = Some(trimmed)])
    ELSE
        LET value == Unwrap(body.json) IN
        CASE Kind(value) = "obj" -> Ok(UnlockFromObject(Val(value)))
          [] Kind(value) \in {"int", "float"} ->
               IF IsSome(AsI64(value))
               THEN Ok([DefaultUnlockResult EXCEPT !.job_id = AsI64(value)])
               ELSE Ok([DefaultUnlockResult EXCEPT
                            !.message = Some(FloatToString(Val(value)))])
          [] Kind(value) = "str" -> Ok(UnlockFromString(Val(value)))
          [] OTHER ->
               Ok([DefaultUnlockResult EXCEPT !.message = Some(JsonToString(value))])

\* unlock_dataset when the body is parsed whatever the status is.
unlock_datasetIgnoringStatus(response) ==
    IF response.kind = "send_error"
    THEN Err(Error("TransportError", [text |-> "failed to send unlock request"],
                   Some("reqwest")))
    ELSE IF response.kind = "body_error"
    THEN Err(Error("TransportError",
                   [text |-> "failed to read unlock response body"],
                   Some("reqwest")))
    ELSE parse_unlock_response(response.body)

\* The part of unlock_dataset after the request was built.
\* Result<UnlockResult>
unlock_dataset(response) ==
    IF response.kind = "send_error"
    THEN Err(Error("TransportError", [text |-> "failed to send unlock request"],
                   Some("reqwest")))
    ELSE IF response.kind = "body_error"
    THEN Err(Error("TransportError",
                   [text |-> "failed to read unlock response body"],
                   Some("reqwest")))
    ELSE IF ~IsSuccess(response.status)
    THEN Err(Error("ApiError",
                   [status |-> response.status, body |-> TrimBody(response.body)],
                   None))
    ELSE parse_unlock_response(response.body)

----------------------------------------------------------------------------
(* Lock                                                                    *)

S_true == <<"t", "r", "u", "e">>
S_false == <<"f", "a", "l", "s", "e">>

\* str::parse::<bool>: "true" or "false" and nothing else.  Option<bool>
ParseBool(s) ==
    IF s = S_true THEN Some(TRUE) ELSE IF s = S_false THEN Some(FALSE) ELSE None

\* LockResult::default()
DefaultLockResult == [job_id |-> None, locked |-> FALSE, message |-> None]

\* LockFromString when the text is parsed without being trimmed.
LockFromStringUntrimmed(text) ==
    IF IsSome(ParseI64(text))
    THEN [DefaultLockResult EXCEPT !.job_id = ParseI64(text)]
    ELSE IF IsSome(ParseBool(text))
    THEN [DefaultLockResult EXCEPT !.locked = Unwrap(ParseBool(text))]
    ELSE [DefaultLockResult EXCEPT !.message = Some(text)]

\* The Ok(Value::String(text)) arm of parse_lock_response.
LockFromString(text) ==
    IF IsSome(ParseI64(Trim(text)))
    THEN [DefaultLockResult EXCEPT !.job_id = ParseI64(Trim(text))]
    ELSE IF IsSome(ParseBool(Trim(text)))
    THEN [DefaultLockResult EXCEPT !.locked = Unwrap(ParseBool(Trim(text)))]
    ELSE [DefaultLockResult EXCEPT !.message = Some(text)]

\* Result<LockResult>.  The arms of the match on the parsed body: an
\* object, a boolean, a number, a string, any other value, and a body that
\* is no JSON document.
parse_lock_response(body) ==
    IF IsNone(body.json) THEN
        LET trimmed == Trim(body.raw) IN
        IF trimmed = <<>> THEN Ok(DefaultLockResult)
        ELSE IF IsSome(ParseI64(trimmed))
        THEN Ok([DefaultLockResult EXCEPT !.job_id = ParseI64(trimmed)])
        ELSE IF IsSome(ParseBool(trimmed))
        THEN Ok([DefaultLockResult EXCEPT !.locked = Unwrap(ParseBool(trimmed))])
        ELSE Ok([DefaultLockResult EXCEPT !.message = Some(trimmed)])
    ELSE
        LET value == Unwrap(body.json) IN
        CASE Kind(value) = "obj" ->
               LET map == Val(value)
                   locked == AndThen(Get(map, "locked"), AsBool)
               IN  Ok([job_id |-> AndThen(Get(map, "job_id"), AsI64),
                       locked |-> IF IsSome(locked) THEN Unwrap(locked) ELSE FALSE,
                       message |-> AndThen(Get(map, "message"), AsStr)])
          [] Kind(value) = "bool" ->
               Ok([DefaultLockResult EXCEPT !.locked = Val(value)])
          [] Kind(value) \in {"int", "float"} ->
               IF IsSome(AsI64(value))
               THEN Ok([DefaultLockResult EXCEPT !.job_id = AsI64(value)])
               ELSE Ok([DefaultLockResult EXCEPT
                            !.message = Some(FloatToString(Val(value)))])
          [] Kind(value) = "str" -> Ok(LockFromString(Val(value)))
          [] OTHER ->
               Ok([DefaultLockResult EXCEPT !.message = Some(JsonToString(value))])

\* The part of lock_dataset after the request was built.  Result<LockResult>
lock_dataset(response) ==
    IF response.kind = "send_error"
    THEN Err(Error("TransportError", [text |-> "failed to send lock request"],
                   Some("reqwest")))
    ELSE IF response.kind = "body_error"
    THEN Err(Error("TransportError",
                   [text |-> "failed to read lock response body"],
                   Some("reqwest")))
    ELSE IF ~IsSuccess(response.status)
    THEN Err(Error("ApiError",
                   [status |-> response.status, body |-> TrimBody(response.body)],
                   None))
    ELSE parse_lock_response(response.body)

----------------------------------------------------------------------------
(* The unlock request                                                      *)

\* unlock_volume's match on volume.unlock_mode.  UnlockSecret
UnlockSecretOf(unlock_mode, value) ==
    IF unlock_mode = "Passphrase" THEN [variant |-> "Passphrase", value |-> value]
    ELSE [variant |-> "Key", value |-> value]

\* The UnlockRequest unlock_dataset builds, after its match on the secret
\* gave (passphrase, key).
UnlockRequestOf(dataset, secret, options) ==
    LET fields == IF secret.variant = "Passphrase"
                  THEN <<Some(secret.value), None>>
                  ELSE <<None, Some(secret.value)>>
    IN  [id |-> dataset,
         unlock_options |->
            [recursive |-> options.recursive,
             force |-> options.force,
             toggle_attachments |-> options.toggle_attachments,
             key_file |-> FALSE,
             datasets |-> <<[name |-> dataset,
                             passphrase |-> fields[1],
                             key |-> fields[2]]>>]]

\* SkipIfNone without the skip: an absent value is written as null.
NoneAsNull(key, opt) == {<<key, IF IsSome(opt) THEN JStr(Unwrap(opt)) ELSE JNull>>}

\* An Option<&str> field under skip_serializing_if = "Option::is_none".
SkipIfNone(key, opt) == {<<key, JStr(opt[i])>> : i \in 1..Len(opt)}

\* Serialize for UnlockDataset
SerializeUnlockDataset(d) ==
    JObj(MkObj({<<"name", JStr(d.name)>>}
               \cup SkipIfNone("passphrase", d.passphrase)
               \cup SkipIfNone("key", d.key)))

\* Serialize for UnlockRequest and for the UnlockOptionsBody in it: the
\* body .json(&body) sends.
SerializeUnlockRequest(r) ==
    LET o == r.unlock_options
        unlock_options ==
            JObj(MkObj({<<"recursive", JBool(o.recursive)>>,
                        <<"force", JBool(o.force)>>,
                        <<"toggle_attachments", JBool(o.toggle_attachments)>>,
                        <<"key_file", JBool(o.key_file)>>,
                        <<"datasets",
                          JArr([i \in 1..Len(o.datasets) |->
                                   SerializeUnlockDataset(o.datasets[i])])>>}))
    IN  JObj(MkObj({<<"id", JStr(r.id)>>, <<"unlock_options", unlock_options>>}))

----------------------------------------------------------------------------
(* The KeePass store                                                       *)
(* A store is the sequence of the nodes of the database in the order the   *)
(* iteration over db.root visits them; a node is an entry or a group, with *)
(* its UUID and its fields (a function from field names to values).  An    *)
(* entry is referred to by its position in the store.                      *)

\* char::to_ascii_lowercase
LowerChar(c) ==
    LET Upper == <<"A", "B", "C", "D", "E", "F", "G", "H", "I", "J", "K", "L", "M",
                   "N", "O", "P", "Q", "R", "S", "T", "U", "V", "W", "X", "Y", "Z">>
        Lower == <<"a", "b", "c", "d", "e", "f", "g", "h", "i", "j", "k", "l", "m",
                   "n", "o", "p", "q", "r", "s", "t", "u", "v", "w", "x", "y", "z">>
    IN  IF \E k \in 1..26 : Upper[k] = c
        THEN Lower[CHOOSE k \in 1..26 : Upper[k] = c]
        ELSE c

\* str::to_ascii_lowercase
ToAsciiLowercase(s) == [i \in 1..Len(s) |-> LowerChar(s[i])]

\* char::is_ascii_hexdigit
IsHexDigit(c) == IsDigit(c) \/ LowerChar(c) \in {"a", "b", "c", "d", "e", "f"}

\* str::strip_prefix.  Option<&str>
StripPrefix(s, prefix) ==
    IF Len(s) >= Len(prefix) /\ SubSeq(s, 1, Len(prefix)) = prefix
    THEN Some(SubSeq(s, Len(prefix) + 1, Len(s)))
    ELSE None

\* str::trim_matches(c)
RECURSIVE TrimMatches(_, _)
TrimMatches(s, c) ==
    IF s # <<>> /\ Head(s) = c THEN TrimMatches(Tail(s), c)
    ELSE IF s # <<>> /\ s[Len(s)] = c THEN TrimMatches(SubSeq(s, 1, Len(s) - 1), c)
    ELSE s

S_uuid_prefix == <<"u", "u", "i", "d", ":">>
S_title_prefix == <<"t", "i", "t", "l", "e", ":">>

\* The number of hexadecimal digits of a UUID.
UuidHexLen == 32

\* Uuid::parse_str: the simple form (32 hexadecimal digits), the hyphenated
\* form (8-4-4-4-12), the braced form or the URN form.  A Uuid is held as
\* its 32 hexadecimal digits in lower case.  Option<Uuid>
UuidParseStr(s) ==
    LET Urn == <<"u", "r", "n", ":", "u", "u", "i", "d", ":">>
        Simple(t) ==
            IF Len(t) = UuidHexLen /\ \A i \in 1..Len(t) : IsHexDigit(t[i])
            THEN Some(ToAsciiLowercase(t))
            ELSE None
        Hyphenated(t) ==
            IF /\ Len(t) = UuidHexLen + 4
               /\ \A i \in 1..Len(t) :
                    IF i \in {9, 14, 19, 24} THEN t[i] = "-" ELSE IsHexDigit(t[i])
            THEN Some(ToAsciiLowercase(SelectSeq(t, LAMBDA c : c # "-")))
            ELSE None
    IN  IF Len(s) = UuidHexLen THEN Simple(s)
        ELSE IF Len(s) = UuidHexLen + 4 THEN Hyphenated(s)
        ELSE IF Len(s) = UuidHexLen + 6 /\ Head(s) = "{" /\ s[Len(s)] = "}"
        THEN Hyphenated(SubSeq(s, 2, Len(s) - 1))
        ELSE IF Len(s) = UuidHexLen + 13 /\ IsSome(StripPrefix(s, Urn))
        THEN Hyphenated(Unwrap(StripPrefix(s, Urn)))
        ELSE None

\* Option<Uuid>
parse_uuid(input) ==
    LET trimmed == TrimMatches(TrimMatches(Trim(input), "{"), "}")
        cleaned == SelectSeq(trimmed, LAMBDA c : c # "-")
    IN  IF IsSome(UuidParseStr(trimmed)) THEN UuidParseStr(trimmed)
        ELSE IF /\ Len(cleaned) = UuidHexLen
                /\ \A i \in 1..Len(cleaned) : IsHexDigit(cleaned[i])
        THEN UuidParseStr(cleaned)
        ELSE None

\* (SelectorMode, &str): the prefix is looked for in the lowered input, the
\* token is cut from the input itself.
parse_selector(input) ==
    LET lowered == ToAsciiLowercase(input)
        uuid_rest == StripPrefix(lowered, S_uuid_prefix)
        title_rest == StripPrefix(lowered, S_title_prefix)
        original(rest) == SubSeq(input, Len(input) - Len(rest) + 1, Len(input))
    IN  IF IsSome(uuid_rest) THEN <<"Uuid", Trim(original(Unwrap(uuid_rest)))>>
        ELSE IF IsSome(title_rest) THEN <<"Title", Trim(original(Unwrap(title_rest)))>>
        ELSE <<"Auto", input>>

S_Title == <<"T", "i", "t", "l", "e">>
S_UserName == <<"U", "s", "e", "r", "N", "a", "m", "e">>
S_Password == <<"P", "a", "s", "s", "w", "o", "r", "d">>
S_URL == <<"U", "R", "L">>

\* Entry::get.  Option<&str>.  get_title, get_username, get_password and
\* get_url are get of the four names above.
EntryGet(entry, key) ==
    IF key \in DOMAIN entry.fields THEN Some(entry.fields[key]) ELSE None

\* The first entry of the store, in store order, that satisfies Hit; a
\* group is passed over.  Option<&Entry>
FirstEntry(store, Hit(_)) ==
    LET hits == {i \in 1..Len(store) : store[i].kind = "entry" /\ Hit(store[i])}
    IN  IF hits = {} THEN None
        ELSE Some(CHOOSE i \in hits : \A k \in hits : i <= k)

UuidIs(entry, uuid) == IsSome(uuid) /\ entry.uuid = Unwrap(uuid)
TitleIs(entry, token) == EntryGet(entry, S_Title) = Some(token)

\* FindByUuid when a token that matches no UUID is looked up as a title.
FindByUuidOrTitle(store, token) ==
    LET found == FirstEntry(store, LAMBDA e : UuidIs(e, parse_uuid(token)))
    IN  IF IsSome(found) THEN found
        ELSE FirstEntry(store, LAMBDA e : TitleIs(e, token))

\* The SelectorMode::Uuid arm of find_entry.
FindByUuid(store, token) ==
    IF IsNone(parse_uuid(token)) THEN None
    ELSE FirstEntry(store, LAMBDA e : UuidIs(e, parse_uuid(token)))

\* The SelectorMode::Title arm of find_entry.
FindByTitle(store, token) == FirstEntry(store, LAMBDA e : TitleIs(e, token))

\* FindAuto when the whole store is searched by UUID before it is searched
\* by title.
FindAutoUuidPassFirst(store, token) ==
    LET found == FirstEntry(store, LAMBDA e : UuidIs(e, parse_uuid(token)))
    IN  IF IsSome(found) THEN found
        ELSE FirstEntry(store, LAMBDA e : TitleIs(e, token))

\* The SelectorMode::Auto arm of find_entry: one pass, both tests on each
\* entry.
FindAuto(store, token) ==
    FirstEntry(store, LAMBDA e : UuidIs(e, parse_uuid(token)) \/ TitleIs(e, token))

\* Option<&Entry>
find_entry(store, selector) ==
    LET parsed == parse_selector(Trim(selector))
        mode == parsed[1]
        token == parsed[2]
    IN  CASE mode = "Uuid" -> FindByUuid(store, token)
          [] mode = "Title" -> FindByTitle(store, token)
          [] OTHER -> FindAuto(store, token)

UsernameAliases ==
    {<<"u", "s", "e", "r", "n", "a", "m", "e">>,
     <<"u", "s", "e", "r", "_", "n", "a", "m", "e">>,
     <<"u", "s", "e", "r", "-", "n", "a", "m", "e">>,
     <<"u", "s", "e", "r">>}
PasswordAliases == {<<"p", "a", "s", "s", "w", "o", "r", "d">>, <<"p", "a", "s", "s">>}

\* AliasKey without to_ascii_lowercase.
AliasKeyAsWritten(field) == Trim(field)

\* field_lower: what the match of entry_field looks at.
AliasKey(field) == ToAsciiLowercase(Trim(field))

\* CustomKey without trim.
CustomKeyUntrimmed(field) == field

\* field_trimmed: what the last arm of the match looks up.
CustomKey(field) == Trim(field)

\* Option<&str>
entry_field(entry, field) ==
    LET field_lower == AliasKey(field) IN
    IF field_lower = <<"t", "i", "t", "l", "e">> THEN EntryGet(entry, S_Title)
    ELSE IF field_lower \in UsernameAliases THEN EntryGet(entry, S_UserName)
    ELSE IF field_lower \in PasswordAliases THEN EntryGet(entry, S_Password)
    ELSE IF field_lower = <<"u", "r", "l">> THEN EntryGet(entry, S_URL)
    ELSE EntryGet(entry, CustomKey(field))

\* Result<Zeroizing<String>>
required_field(entry, field, entry_label) ==
    LET value == entry_field(entry, field)
    IN  IF IsSome(value) THEN Ok(Unwrap(value))
        ELSE Err(Error("MissingField", [field |-> field, entry |-> entry_label],
                       None))

----------------------------------------------------------------------------
(* The credential and the unlock secret                                    *)
(* What unlock_volume does before its first request: it looks the volume   *)
(* and its NAS up, opens the store, finds the two entries, reads the       *)
(* fields and builds the client.  A configuration holds what these steps   *)
(* meet: the volume and the NAS the two lookups find (Option), the store   *)
(* KeePassStore::open returns (Option, None when the prompt or the open    *)
(* fails), and whether build_client and parse_base_url succeed.            *)

\* require_entry.  Result<&Entry>, the entry as its position in the store.
require_entry(store, selector) ==
    LET found == find_entry(store, selector)
    IN  IF IsSome(found) THEN Ok(Unwrap(found))
        ELSE Err(Error("EntryNotFound", [selector |-> selector], None))

\* ensure_non_empty when the secret is tested as it is written.
ensure_non_emptyUntrimmed(secret, label) ==
    IF secret = <<>> THEN Err(Error("EmptySecret", [label |-> label], None))
    ELSE Ok(<<>>)

\* ensure_non_empty.  Result<()>
ensure_non_empty(secret, label) ==
    IF Trim(secret) = <<>> THEN Err(Error("EmptySecret", [label |-> label], None))
    ELSE Ok(<<>>)

\* unlock_volume up to its call of unlock_dataset: every ? returns the
\* error of its step.  Result<(StoredAuth, UnlockSecret)>
ResolveSecrets(c) ==
    IF IsNone(c.volume)
    THEN Err(Error("UnknownVolume", [text |-> "unknown volume '{}'"], None))
    ELSE IF IsNone(c.nas)
    THEN Err(Error("UnknownNas", [text |-> "unknown NAS '{}'"], None))
    ELSE IF IsNone(c.store)
    THEN Err(Error("OpenFailed", [text |-> "failed to open KeePass database"],
                   Some("keepass")))
    ELSE
        LET volume == Unwrap(c.volume)
            nas == Unwrap(c.nas)
            store == Unwrap(c.store)
            FieldOf(entry, field, label) == required_field(store[entry], field, label)
            \* value?; ensure_non_empty(&value, label)?; then the rest
            NonEmpty(value, label, rest) ==
                IF IsErr(ensure_non_empty(value, label))
                THEN ensure_non_empty(value, label)
                ELSE rest
            \* the match on nas.auth_method.  Result<StoredAuth>
            Basic(username, password) ==
                IF IsErr(username) THEN username
                ELSE IF IsErr(password) THEN password
                ELSE NonEmpty(username.v, "NAS username",
                        NonEmpty(password.v, "NAS password",
                            Ok([variant |-> "Basic", username |-> username.v,
                                password |-> password.v])))
            ApiKey(key) ==
                IF IsErr(key) THEN key
                ELSE NonEmpty(key.v, "API key", Ok([variant |-> "ApiKey", key |-> key.v]))
            \* the unlock secret and the match on volume.unlock_mode
            Secret(value) ==
                IF IsErr(value) THEN value
                ELSE NonEmpty(value.v, "unlock secret",
                        Ok(UnlockSecretOf(volume.unlock_mode, value.v)))
            \* build_client and parse_base_url, after both secrets are held
            Client(stored, secret) ==
                IF IsErr(stored) THEN stored
                ELSE IF IsErr(secret) THEN secret
                ELSE IF ~c.client_ok
                THEN Err(Error("ClientError", [text |-> "builder error"], None))
                ELSE IF ~c.host_ok
                THEN Err(Error("InvalidHost", [text |-> "invalid NAS host URL"],
                               Some("url")))
                ELSE Ok([stored_auth |-> stored.v, unlock_secret |-> secret.v])
            Entries(auth_entry, unlock_entry) ==
                IF IsErr(auth_entry) THEN auth_entry
                ELSE IF IsErr(unlock_entry) THEN unlock_entry
                ELSE Client(
                        IF nas.auth_method = "Basic"
                        THEN Basic(FieldOf(auth_entry.v, nas.username_field, nas.auth_entry),
                                   FieldOf(auth_entry.v, nas.password_field, nas.auth_entry))
                        ELSE ApiKey(FieldOf(auth_entry.v, nas.password_field,
                                            nas.auth_entry)),
                        Secret(FieldOf(unlock_entry.v, volume.unlock_field,
                                       volume.unlock_entry)))
        IN  Entries(require_entry(store, nas.auth_entry),
                    require_entry(store, volume.unlock_entry))

\* StoredAuth::as_auth: the same variant, its fields borrowed.  Auth
as_auth(stored) ==
    IF stored.variant = "Basic"
    THEN [variant |-> "Basic", username |-> stored.username,
          password |-> stored.password]
    ELSE [variant |-> "ApiKey", key |-> stored.key]

\* apply_auth when every credential is sent as HTTP Basic.
apply_authAlwaysBasic(auth) ==
    IF auth.variant = "Basic"
    THEN [scheme |-> "Basic", credentials |-> auth.username \o <<":">> \o auth.password]
    ELSE [scheme |-> "Basic", credentials |-> auth.key \o <<":">>]

\* apply_auth: the Authorization header the request is given.  basic_auth
\* writes "Basic " and the base64 form of username:password (credentials
\* holds the text that is encoded); the API key follows "Bearer ".
apply_auth(auth) ==
    IF auth.variant = "Basic"
    THEN [scheme |-> "Basic", credentials |-> auth.username \o <<":">> \o auth.password]
    ELSE [scheme |-> "Bearer", credentials |-> auth.key]

----------------------------------------------------------------------------
(* wait_for_job: what the loop does with the job get_job returned          *)

PollIntervalSecs == 1

\* JobOutcome with the "ABORTED" arm of the match left out.
JobOutcomeNoAborted(j) ==
    IF IsSome(j.state) /\ Unwrap(j.state) = S_SUCCESS THEN "Succeeded"
    ELSE IF IsSome(j.state) /\ Unwrap(j.state) = S_FAILED THEN "Failed"
    ELSE "Pending"

\* "Succeeded", "Failed" or "Pending": the match on job.state
JobOutcome(j) ==
    IF IsSome(j.state) /\ Unwrap(j.state) = S_SUCCESS THEN "Succeeded"
    ELSE IF IsSome(j.state) /\ Unwrap(j.state) \in {S_FAILED, S_ABORTED} THEN "Failed"
    ELSE "Pending"

\* JobDetail with the exception preferred to the error.
JobDetailExceptionFirst(j) == UnwrapOr(OptionOr(j.exception, j.error), S_job_failed)

\* error, else exception, else "job failed"
JobDetail(j) == UnwrapOr(OptionOr(j.error, j.exception), S_job_failed)

\* bail!("job {} failed: {}", job_id, detail.trim())
JobFailed(job_id, j) ==
    Error("JobFailed", [job_id |-> job_id, detail |-> Trim(JobDetail(j))], None)

\* (job.progress_percent, job.progress_description.clone())
ProgressOf(j) == <<j.progress_percent, j.progress_description>>

\* EmitsProgress without the comparison with the last reported tuple.
EmitsProgressAlways(last, progress) == IsSome(progress[1]) \/ IsSome(progress[2])

\* EmitsProgress when only the description is compared with the last report.
EmitsProgressByDescription(last, progress) ==
    /\ IsSome(progress[1]) \/ IsSome(progress[2])
    /\ IsNone(last) \/ Unwrap(last)[2] # progress[2]

\* The two nested conditions that guard the println! of the progress.
EmitsProgress(last, progress) ==
    /\ IsSome(progress[1]) \/ IsSome(progress[2])
    /\ last # Some(progress)

\* {:.0} of an f64: the nearest integer, a tie going to the even one.
FormatPercent(h) ==
    LET q == h \div Half
    IN  IF h % Half = 0 THEN q ELSE IF q % 2 = 0 THEN q ELSE q + 1

\* The lines the if / else-if on the tuple prints: one, or none when both
\* components are absent.
ProgressLines(job_id, progress) ==
    IF IsSome(progress[1]) /\ IsSome(progress[2])
    THEN <<[fmt |-> "job {}: {:.0}% {}",
            args |-> <<job_id, FormatPercent(Unwrap(progress[1])), Unwrap(progress[2])>>]>>
    ELSE IF IsSome(progress[1])
    THEN <<[fmt |-> "job {}: {:.0}%",
            args |-> <<job_id, FormatPercent(Unwrap(progress[1]))>>]>>
    ELSE IF IsSome(progress[2])
    THEN <<[fmt |-> "job {}: {}", args |-> <<job_id, Unwrap(progress[2])>>]>>
    ELSE <<>>

\* get_job_fallback when only the error of the GET attempt is returned.
get_job_fallbackGetOnly(post_err, get_res) == get_res

\* get_job's match on the two attempts, once the POST attempt has failed.
\* Result<JobInfo>
get_job_fallback(post_err, get_res) ==
    IF IsOk(get_res) THEN get_res
    ELSE Err(Error("JobQueryFailed",
                   [text |-> "failed to query job status: post error: {}; get error: {}",
                    post |-> Display(post_err), get |-> Display(get_res.v)],
                   None))

----------------------------------------------------------------------------
(* What the server may answer                                              *)

S_disk_busy == <<"d", "i", "s", "k", " ", "b", "u", "s", "y">>
S_padded == <<" ", "o", "o", "m", "\n">>
S_trace == <<"T", "r", "a", "c", "e">>
S_scan == <<"s", "c", "a", "n">>
S_done == <<"d", "o", "n", "e">>
S_oops == <<"o", "o", "p", "s">>
S_success == <<"s", "u", "c", "c", "e", "s", "s">>
S_17 == <<"1", "7">>
S_tank_b == <<"t", "a", "n", "k", "/", "b">>

SendError == [kind |-> "send_error"]
BodyError(status) == [kind |-> "body_error", status |-> status]
Response(status, body) == [kind |-> "response", status |-> status, body |-> body]

\* Bodies of the unlock call that are JSON objects: every combination of
\* the four keys, each absent, well typed or of another type.
UnlockObjects ==
    {JObj(MkObj(Field("job_id", j) \cup Field("unlocked", u)
                \cup Field("failed", f) \cup Field("message", m))) :
        j \in {None, Some(JInt(17)), Some(JStr(S_17))},
        u \in {None, Some(JArr(<<JStr(S_tank_b), JInt(1)>>))},
        f \in {None, Some(JObj(<<>>)),
               Some(JObj(MkObj({<<"tank/a", JStr(S_disk_busy)>>}))),
               Some(JObj(MkObj({<<"tank/a", JStr(S_padded)>>,
                                <<"tank/b", JObj([code |-> JInt(5)])>>}))),
               Some(JArr(<<JStr(S_disk_busy)>>))},
        m \in {None, Some(JStr(S_done))}}

UnlockBodies ==
    {BText(<<>>), BText(<<" ", "\n">>), BText(S_oops), BText(<<"+">> \o S_17)}
    \cup {BJson(v) : v \in UnlockObjects}
    \cup {BJson(JInt(17)), BJson(JFloat(5)), BJson(JStr(S_17)),
          BJson(JStr(<<" ">> \o S_17)), BJson(JStr(S_done)), BJson(JBool(TRUE)),
          BJson(JNull), BJson(JArr(<<JInt(42)>>))}

UnlockResponses ==
    {SendError, BodyError(200)}
    \cup {Response(200, b) : b \in UnlockBodies}
    \cup {Response(s, b) : s \in {401, 500},
                           b \in {BText(S_oops), BJson(JObj([job_id |-> JInt(42)]))}}

\* A job record with the given Option<Value> under each key.
JobRecord(id, state, error, exception, progress) ==
    JObj(MkObj(Field("id", id) \cup Field("state", state)
               \cup Field("error", error) \cup Field("exception", exception)
               \cup Field("progress", progress)))

ProgressValues ==
    {None,
     Some(JObj(<<>>)),
     Some(JObj([percent |-> JFloat(5)])),
     Some(JObj([description |-> JStr(S_scan)])),
     Some(JObj([percent |-> JInt(50), description |-> JStr(S_scan)]))}

\* Records of the requested job that report no terminal state.
PendingRecords(job_id) ==
    {JobRecord(Some(JInt(job_id)), st, None, None, pr) :
        st \in {None, Some(JStr(S_RUNNING))}, pr \in ProgressValues}
    \cup
    {JobRecord(Some(JInt(job_id)), Some(st), None, None, None) :
        st \in {JNull, JStr(S_success)}}

\* Records of the requested job that report a terminal state.
TerminalRecords(job_id) ==
    {JobRecord(Some(JInt(job_id)), Some(JStr(S_SUCCESS)), None, None, pr) :
        pr \in {None, Some(JObj([percent |-> JInt(50), description |-> JStr(S_scan)]))}}
    \cup
    {JobRecord(Some(JInt(job_id)), Some(JStr(S_FAILED)), er, ex, None) :
        er \in {None, Some(JStr(S_disk_busy)), Some(JStr(S_padded)), Some(JInt(5))},
        ex \in {None, Some(JStr(S_trace))}}
    \cup
    {JobRecord(Some(JInt(job_id)), Some(JStr(S_ABORTED)), er, ex, None) :
        er \in {None, Some(JStr(S_disk_busy))},
        ex \in {None, Some(JStr(S_trace))}}
    \cup
    {JobRecord(Some(JInt(job_id)), Some(JStr(S_FAILED)), Some(JStr(S_padded)), None,
               Some(JObj([description |-> JStr(S_scan)])))}

\* Documents that hold no record of the requested job.
ForeignValues(job_id) ==
    {JInt(job_id),
     JobRecord(Some(JFloat(Half * job_id)), Some(JStr(S_SUCCESS)), None, None, None),
     JArr(<<JobRecord(Some(JInt(job_id + 1)), Some(JStr(S_SUCCESS)), None, None, None),
            JArr(<<JobRecord(Some(JInt(job_id)), None, None, None, None)>>),
            JobRecord(None, Some(JStr(S_SUCCESS)), None, None, None),
            JobRecord(Some(JStr(IntToString(job_id))), None, None, None, None)>>)}

\* Arrays in which the record of the requested job stands among others.
ListedValues(job_id) ==
    {JArr(<<JobRecord(Some(JInt(job_id)), Some(JStr(S_RUNNING)), None, None, None)>>),
     JArr(<<JNull,
            JobRecord(Some(JInt(job_id + 1)), Some(JStr(S_SUCCESS)), None, None, None),
            JobRecord(Some(JInt(job_id)), Some(JStr(S_FAILED)), None,
                      Some(JStr(S_trace)), None),
            JobRecord(Some(JInt(job_id)), Some(JStr(S_SUCCESS)), None, None, None)>>)}

JobBodies(job_id) ==
    {BText(S_oops)}
    \cup {BJson(v) : v \in PendingRecords(job_id) \cup TerminalRecords(job_id)
                         \cup ForeignValues(job_id) \cup ListedValues(job_id)}

JobResponses(job_id) ==
    {SendError,
     Response(404, BJson(JobRecord(Some(JInt(job_id)), Some(JStr(S_SUCCESS)),
                                   None, None, None)))}
    \cup {Response(200, b) : b \in JobBodies(job_id)}

----------------------------------------------------------------------------
(* What the invocation is configured with                                  *)

S_nas == <<"n", "a", "s">>
S_NAS == <<"N", "A", "S">>
\* Two UUIDs; the first also in its hyphenated form and in upper case.
U1 ==
    <<"a", "a", "a", "a", "a", "a", "a", "a", "b", "b", "b", "b", "c", "c",
      "c", "c", "d", "d", "d", "d", "e", "e", "e", "e", "e", "e", "e", "e",
      "e", "e", "e", "e">>
U1Hyphenated ==
    <<"a", "a", "a", "a", "a", "a", "a", "a", "-", "b", "b", "b", "b", "-",
      "c", "c", "c", "c", "-", "d", "d", "d", "d", "-", "e", "e", "e", "e",
      "e", "e", "e", "e", "e", "e", "e", "e">>
U1Upper ==
    <<"A", "A", "A", "A", "A", "A", "A", "A", "B", "B", "B", "B", "C", "C",
      "C", "C", "D", "D", "D", "D", "E", "E", "E", "E", "E", "E", "E", "E",
      "E", "E", "E", "E">>
U2 ==
    <<"0", "1", "2", "3", "4", "5", "6", "7", "8", "9", "a", "b", "c", "d",
      "e", "f", "0", "1", "2", "3", "4", "5", "6", "7", "8", "9", "a", "b",
      "c", "d", "e", "f">>
S_root == <<"r", "o", "o", "t">>
S_hunter2 == <<"h", "u", "n", "t", "e", "r", "2">>
S_api_key == <<"a", "p", "i", "_", "k", "e", "y">>
S_API_KEY == <<"A", "P", "I", "_", "K", "E", "Y">>
S_k1 == <<"k", "1">>
Node(kind, uuid, fields) == [kind |-> kind, uuid |-> uuid, fields |-> fields]

\* Fields(pairs): the field map with the given <<name, value>> pairs.
Fields(pairs) == [k \in {p[1] : p \in pairs} |-> (CHOOSE p \in pairs : p[1] = k)[2]]

\* Configurations: the store holds the entry of the NAS or not, and the
\* entry of the volume or not; a field is present, blank, empty or absent;
\* the NAS is authenticated with a password or with an API key; and one
\* configuration for each step before the entries are looked up, or after
\* the secrets are read, that fails.
Configs ==
    LET AuthEntries ==
            {Node("entry", U1, Fields({<<S_Title, S_nas>>, <<S_UserName, S_root>>,
                                       <<S_Password, S_hunter2>>})),
             Node("entry", U1, Fields({<<S_Title, S_nas>>, <<S_UserName, <<" ", "\t">> >>,
                                       <<S_Password, <<" ">> \o S_k1 \o <<" ">> >>})),
             Node("entry", U1, Fields({<<S_Title, S_nas>>, <<S_UserName, S_root>>})),
             Node("entry", U1, Fields({<<S_Title, S_nas>>, <<S_UserName, S_root>>,
                                       <<S_Password, <<>> >>}))}
        UnlockEntries ==
            {Node("entry", U2, Fields({<<S_Title, S_tank_b>>,
                                       <<S_Password, <<" ">> \o S_hunter2>>})),
             Node("entry", U2, Fields({<<S_Title, S_tank_b>>, <<S_Password, <<"\n">> >>})),
             Node("entry", U2, Fields({<<S_Title, S_tank_b>>}))}
        Config(auth_method, unlock_mode, store) ==
            [volume |-> Some([unlock_entry |-> S_tank_b, unlock_field |-> S_Password,
                              unlock_mode |-> unlock_mode]),
             nas |-> Some([auth_entry |-> S_title_prefix \o S_nas,
                           auth_method |-> auth_method,
                           username_field |-> S_UserName,
                           password_field |-> S_Password]),
             store |-> Some(store),
             client_ok |-> TRUE,
             host_ok |-> TRUE]
        Good == Config("Basic", "Passphrase",
                       <<CHOOSE e \in AuthEntries : Trim(e.fields[S_UserName]) # <<>>
                                                     /\ S_Password \in DOMAIN e.fields
                                                     /\ e.fields[S_Password] # <<>>,
                         CHOOSE e \in UnlockEntries : S_Password \in DOMAIN e.fields
                                                       /\ Trim(e.fields[S_Password]) # <<>> >>)
    IN  {Config(m[1], m[2], a \o u) :
            m \in {<<"Basic", "Passphrase">>, <<"ApiKey", "Key">>},
            a \in {<<>>} \cup {<<e>> : e \in AuthEntries},
            u \in {<<>>} \cup {<<e>> : e \in UnlockEntries}}
        \cup {[Good EXCEPT !.volume = None],
              [Good EXCEPT !.nas = None],
              [Good EXCEPT !.store = None],
              [Good EXCEPT !.client_ok = FALSE],
              [Good EXCEPT !.host_ok = FALSE]}

----------------------------------------------------------------------------
(* The invocation                                                          *)

UnlockPath == "api/v2.0/pool/dataset/unlock"
JobsPath == "api/v2.0/core/get_jobs"

Request(method, path) == [method |-> method, path |-> path]

Unit == <<>>

Init ==
    /\ pc = "resolve"
    /\ cfg \in Configs
    /\ stored_auth = None
    /\ unlock_secret = None
    /\ requests = <<>>
    /\ headers = <<>>
    /\ last_response = None
    /\ result = None
    /\ post_result = None
    /\ get_result = None
    /\ job = None
    /\ last_progress = None
    /\ reported = <<>>
    /\ stdout = <<>>
    /\ stderr = <<>>
    /\ wait_result = None
    /\ exit = None
    /\ polls = 0
    /\ sleeps = 0
    /\ clock = 0
    /\ call = None
    /\ ret = None

\* The job id wait_for_job was called with.
RequestedJobId == Unwrap(Unwrap(result).job_id)

\* UnlockDecision when the unlocked list is looked at before the job id.
UnlockDecisionUnlockedFirst(res) ==
    IF res.failed # <<>> THEN "Failed"
    ELSE IF res.unlocked # <<>> THEN "Unlocked"
    ELSE IF IsSome(res.job_id) THEN "Track"
    ELSE IF IsSome(res.message) THEN "Message"
    ELSE "Accepted"

\* UnlockDecision when the job id is looked at before the failed map.
UnlockDecisionJobFirst(res) ==
    IF IsSome(res.job_id) THEN "Track"
    ELSE IF res.failed # <<>> THEN "Failed"
    ELSE IF res.unlocked # <<>> THEN "Unlocked"
    ELSE IF IsSome(res.message) THEN "Message"
    ELSE "Accepted"

\* unlock_volume after unlock_dataset returned Ok: which of its five ends
\* the result selects.
UnlockDecision(res) ==
    IF res.failed # <<>> THEN "Failed"
    ELSE IF IsSome(res.job_id) THEN "Track"
    ELSE IF res.unlocked # <<>> THEN "Unlocked"
    ELSE IF IsSome(res.message) THEN "Message"
    ELSE "Accepted"

\* [String]::join
RECURSIVE Join(_, _)
Join(strings, sep) ==
    IF strings = <<>> THEN <<>>
    ELSE IF Len(strings) = 1 THEN Head(strings)
    ELSE Head(strings) \o sep \o Join(Tail(strings), sep)

\* eprintln!("failed to unlock {}: {}", name, reason) for every pair
FailedLines(failed) ==
    [i \in 1..Len(failed) |->
        [fmt |-> "failed to unlock {}: {}", args |-> <<failed[i][1], failed[i][2]>>]]

\* unlock_volume from its start up to its call of unlock_dataset, or its
\* return with the error of the step that failed.
ResolveCredentials ==
    /\ pc = "resolve"
    /\ \E resolved \in {ResolveSecrets(cfg)} :
           /\ stored_auth' = IF IsOk(resolved) THEN Some(resolved.v.stored_auth) ELSE None
           /\ unlock_secret' =
                IF IsOk(resolved) THEN Some(resolved.v.unlock_secret) ELSE None
           /\ exit' = IF IsOk(resolved) THEN exit ELSE Some(resolved)
           /\ pc' = IF IsOk(resolved) THEN "unlock" ELSE "done"
    /\ UNCHANGED <<cfg, requests, headers, last_response, result, post_result,
                   get_result, job, last_progress, reported, stdout, stderr,
                   wait_result, polls, sleeps, clock, call, ret>>

\* unlock_volume from the unlock request up to its return or its call of
\* wait_for_job.
UnlockVolume ==
    /\ pc = "unlock"
    /\ \E response \in UnlockResponses :
        LET r == unlock_dataset(response)
            decision == IF IsOk(r) THEN UnlockDecision(r.v) ELSE "Error"
        IN  /\ requests' = Append(requests, Request("POST", UnlockPath))
            /\ headers' = Append(headers, apply_auth(as_auth(Unwrap(stored_auth))))
            /\ last_response' = Some(response)
            /\ result' = IF IsOk(r) THEN Some(r.v) ELSE None
            /\ stderr' = IF decision = "Failed"
                         THEN stderr \o FailedLines(r.v.failed) ELSE stderr
            /\ stdout' =
                CASE decision = "Unlocked" ->
                       Append(stdout, [fmt |-> "unlocked datasets: {}",
                                       args |-> <<Join(r.v.unlocked, <<",", " ">>)>>])
                  [] decision = "Message" ->
                       Append(stdout, [fmt |-> "{}", args |-> <<Unwrap(r.v.message)>>])
                  [] decision = "Accepted" ->
                       Append(stdout, [fmt |-> "unlock request accepted", args |-> <<>>])
                  [] OTHER -> stdout
            /\ exit' =
                CASE decision = "Error" -> Some(r)
                  [] decision = "Failed" ->
                       Some(Err(Error("UnlockFailed", [text |-> "unlock failed"], None)))
                  [] decision = "Track" -> None
                  [] OTHER -> Some(Ok(Unit))
            /\ pc' = IF decision = "Track" THEN "post" ELSE "done"
    /\ UNCHANGED <<cfg, stored_auth, unlock_secret, post_result, get_result, job,
                   last_progress, reported, wait_result, polls, sleeps, clock,
                   call, ret>>

\* ReturnsAfterPost when get_job always goes on to the GET attempt.
ReturnsAfterPostNever(post_res) == FALSE

\* get_job returns after the POST attempt exactly when that attempt is Ok.
ReturnsAfterPost(post_res) == IsOk(post_res)

\* AfterQueryError when a failed query is tried again after the sleep.
AfterQueryErrorRetry == "sleep"

\* Where the loop goes when get_job returned an error: the ? returns it.
AfterQueryError == "done"

\* AfterPending when the unlock call is made again instead of the next poll.
AfterPendingUnlockAgain == "unlock"

\* AfterPending with a deadline on the time spent waiting.
AfterPendingDeadline == IF clock >= 2 * PollIntervalSecs THEN "done" ELSE "sleep"

\* AfterPending with a ceiling on the number of polls.
AfterPendingCeiling == IF polls >= 1 THEN "done" ELSE "sleep"

\* Where the loop goes after a job that is still pending: to the sleep.
AfterPending == "sleep"

\* wait_for_job from the return of get_job with Ok(j) up to its own return
\* or its sleep, and unlock_volume's end when wait_for_job returns.
JobReturned(j) ==
    LET outcome == JobOutcome(j)
        progress == ProgressOf(j)
        emits == outcome = "Pending" /\ EmitsProgress(last_progress, progress)
    IN  /\ job' = Some(j)
        /\ wait_result' =
            CASE outcome = "Succeeded" -> Some(Ok(j))
              [] outcome = "Failed" -> Some(Err(JobFailed(RequestedJobId, j)))
              [] OTHER -> wait_result
        /\ exit' =
            CASE outcome = "Succeeded" -> Some(Ok(Unit))
              [] outcome = "Failed" -> Some(Err(JobFailed(RequestedJobId, j)))
              [] OTHER -> exit
        /\ stdout' =
            IF outcome = "Succeeded"
            THEN Append(stdout, [fmt |-> "unlock complete (job id: {})", args |-> <<j.id>>])
            ELSE IF emits
            THEN stdout \o ProgressLines(RequestedJobId, progress)
            ELSE stdout
        /\ last_progress' = IF emits THEN Some(progress) ELSE last_progress
        /\ reported' = IF emits THEN Append(reported, progress) ELSE reported
        /\ pc' = IF outcome = "Pending" THEN AfterPending ELSE "done"

\* wait_for_job and unlock_volume when get_job returned Err(e).
QueryFailed(e) ==
    /\ wait_result' = IF AfterQueryError = "done" THEN Some(Err(e)) ELSE wait_result
    /\ exit' = IF AfterQueryError = "done" THEN Some(Err(e)) ELSE exit
    /\ pc' = AfterQueryError
    /\ UNCHANGED <<job, stdout, last_progress, reported>>

\* The start of a loop iteration: get_job's POST attempt, and all that
\* follows when it is Ok.
FetchJobViaPost ==
    /\ pc = "post"
    /\ polls < MaxPolls
    /\ \E response \in JobResponses(RequestedJobId) :
        \E post_res \in {fetch_job(response, RequestedJobId)} :
            /\ requests' = Append(requests, Request("POST", JobsPath))
            /\ headers' = Append(headers, apply_auth(as_auth(Unwrap(stored_auth))))
            /\ last_response' = Some(response)
            /\ polls' = polls + 1
            /\ post_result' = Some(post_res)
            /\ IF ReturnsAfterPost(post_res)
               THEN IF IsOk(post_res) THEN JobReturned(post_res.v)
                    ELSE QueryFailed(post_res.v)
               ELSE /\ pc' = "get"
                    /\ UNCHANGED <<job, wait_result, exit, stdout, last_progress,
                                   reported>>
    /\ UNCHANGED <<cfg, stored_auth, unlock_secret, result, get_result, stderr,
                   sleeps, clock, call, ret>>

\* get_job's GET attempt, and all that follows it.
FetchJobViaGet ==
    /\ pc = "get"
    /\ \E response \in JobResponses(RequestedJobId) :
        \E get_res \in {fetch_job(response, RequestedJobId)} :
        \E returned \in {IF IsOk(Unwrap(post_result)) THEN get_res
                          ELSE get_job_fallback(Unwrap(post_result).v, get_res)} :
            /\ requests' = Append(requests, Request("GET", JobsPath))
            /\ headers' = Append(headers, apply_auth(as_auth(Unwrap(stored_auth))))
            /\ last_response' = Some(response)
            /\ get_result' = Some(get_res)
            /\ IF IsOk(returned) THEN JobReturned(returned.v)
               ELSE QueryFailed(returned.v)
    /\ UNCHANGED <<cfg, stored_auth, unlock_secret, result, post_result, stderr,
                   polls, sleeps, clock, call, ret>>

\* std::thread::sleep(poll_interval), then the next iteration begins; the
\* locals of the finished iteration are gone.
Sleep ==
    /\ pc = "sleep"
    /\ sleeps' = sleeps + 1
    /\ clock' = clock + PollIntervalSecs
    /\ job' = None
    /\ post_result' = None
    /\ get_result' = None
    /\ last_response' = None
    /\ pc' = "post"
    /\ UNCHANGED <<cfg, stored_auth, unlock_secret, requests, headers, result,
                   last_progress, reported, stdout, stderr, wait_result, exit,
                   polls, call, ret>>

Next ==
    \/ ResolveCredentials
    \/ UnlockVolume
    \/ FetchJobViaPost
    \/ FetchJobViaGet
    \/ Sleep

Spec == Init /\ [][Next]_vars

\* wait_for_job alone, from its call by unlock_volume: the unlock call was
\* answered with a job id.  One credential is enough, the loop does not
\* read it.
WaitInit ==
    /\ pc = "post"
    /\ \E c \in Configs, response \in {Response(200, BJson(JInt(17)))} :
       \E resolved \in {ResolveSecrets(c)} :
        /\ IsOk(resolved)
        /\ Unwrap(c.nas).auth_method = "Basic"
        /\ cfg = c
        /\ stored_auth = Some(resolved.v.stored_auth)
        /\ unlock_secret = Some(resolved.v.unlock_secret)
        /\ requests = <<Request("POST", UnlockPath)>>
        /\ headers = <<apply_auth(as_auth(resolved.v.stored_auth))>>
        /\ last_response = Some(response)
        /\ result = Some(unlock_dataset(response).v)
    /\ post_result = None
    /\ get_result = None
    /\ job = None
    /\ last_progress = None
    /\ reported = <<>>
    /\ stdout = <<>>
    /\ stderr = <<>>
    /\ wait_result = None
    /\ exit = None
    /\ polls = 0
    /\ sleeps = 0
    /\ clock = 0
    /\ call = None
    /\ ret = None

\* Every request is answered or times out (build_client sets a timeout of
\* 30 seconds) and every sleep ends, so each step of the loop is taken.
SpecWait ==
    /\ WaitInit
    /\ [][FetchJobViaPost \/ FetchJobViaGet \/ Sleep]_vars
    /\ WF_vars(FetchJobViaPost)
    /\ WF_vars(FetchJobViaGet)
    /\ WF_vars(Sleep)

TypeOK ==
    /\ pc \in {"resolve", "unlock", "post", "get", "sleep", "done"}
    /\ polls \in 0..MaxPolls
    /\ sleeps \in 0..MaxPolls

----------------------------------------------------------------------------
(* Calls of single functions, their arguments drawn from the sets below    *)

MaxEntries == 2

\* The nodes a store is made of: entries that share a title or a UUID, an
\* entry whose title is the text of another entry's UUID, an entry without
\* a title, and a group.
Nodes ==
    {Node("entry", U1, Fields({<<S_Title, S_nas>>})),
     Node("entry", U2, Fields({<<S_Title, S_nas>>})),
     Node("entry", U2, Fields({<<S_Title, U1Hyphenated>>})),
     Node("entry", U2, Fields({<<S_Title, S_NAS>>})),
     Node("entry", U2, Fields({<<S_UserName, S_nas>>})),
     Node("group", U1, Fields({<<S_Title, S_nas>>}))}

Stores == UNION {[1..n -> Nodes] : n \in 0..MaxEntries}

\* Selectors without a prefix (a title, a title with padding, a title in
\* another case, a title no entry has, a UUID in its hyphenated, simple
\* upper-case and braced forms, two texts that are almost a UUID), with the
\* title prefix and with the uuid prefix.
Selectors ==
    {S_nas,
     <<" ">> \o S_nas \o <<"\n">>,
     S_NAS,
     <<"v", "a", "u", "l", "t">>,
     U1Hyphenated,
     U1Upper,
     <<"{">> \o U1Hyphenated \o <<"}">>,
     SubSeq(U1, 1, 4) \o <<"-">> \o SubSeq(U1, 5, 20) \o <<"-">> \o SubSeq(U1, 21, 32),
     SubSeq(U1, 1, 31),
     S_title_prefix \o S_nas,
     <<"T", "i", "T", "L", "E", ":", " ", " ">> \o S_nas \o <<" ">>,
     S_title_prefix \o S_NAS,
     S_title_prefix \o U1Hyphenated,
     S_title_prefix \o S_uuid_prefix \o S_nas,
     S_uuid_prefix \o U1Hyphenated,
     S_uuid_prefix \o U2,
     <<"U", "U", "I", "D", ":", " ", "{">> \o U1 \o <<"}", " ">>,
     <<"U", "u", "i", "d", ":">> \o U1Upper,
     S_uuid_prefix \o S_nas,
     S_uuid_prefix \o <<"u", "r", "n", ":", "u", "u", "i", "d", ":">> \o U1Hyphenated}

\* Entries whose fields are looked up.
FieldEntries ==
    {Node("entry", U1, Fields({<<S_Title, S_nas>>, <<S_UserName, S_root>>,
                               <<S_Password, S_hunter2>>, <<S_URL, S_done>>,
                               <<S_api_key, S_k1>>, <<S_API_KEY, S_trace>>})),
     Node("entry", U1, Fields({<<S_UserName, S_root>>, <<<<"u", "s", "e", "r">>, S_oops>>,
                               <<S_api_key, S_k1>>})),
     Node("entry", U2, Fields({<<S_Password, <<>> >>, <<S_API_KEY, S_trace>>})),
     Node("entry", U2, Fields({<<S_Title, S_nas>>})),
     Node("entry", U2, <<>>)}

FieldNames ==
    {<<"u", "s", "e", "r", "n", "a", "m", "e">>,
     <<" ", " ", "U", "S", "E", "R", "N", "A", "M", "E", " ">>,
     <<"U", "s", "e", "r", "_", "N", "a", "m", "e">>,
     <<"u", "s", "e", "r", "-", "n", "a", "m", "e">>,
     <<"U", "S", "E", "R">>,
     <<"U", "s", "e", "r", "N", "a", "m", "e">>,
     <<"p", "a", "s", "s", "w", "o", "r", "d">>,
     <<"P", "A", "S", "S">>,
     <<" ", "p", "a", "s", "s", "\n">>,
     <<"P", "a", "s", "s", "w", "o", "r", "d">>,
     <<"t", "i", "t", "l", "e">>,
     <<"T", "i", "t", "l", "e">>,
     <<"U", "R", "L">>,
     <<" ", "u", "r", "l">>,
     <<"a", "p", "i", "_", "k", "e", "y">>,
     <<"A", "P", "I", "_", "K", "E", "Y">>,
     <<" ", "a", "p", "i", "_", "k", "e", "y", "\t">>,
     <<"A", "p", "i", "_", "K", "e", "y">>,
     <<"n", "o", "t", "e", "s">>,
     <<"p", "a", "s", "s", " ", "w", "o", "r", "d">>,
     <<>>}

\* Bodies handed to the two response parsers.
ParseBodies ==
    UnlockBodies
    \cup {BJson(JObj([job_id |-> JInt(42)])),
          BJson(JObj([job_id |-> JFloat(5)])),
          BJson(JObj([unlocked |-> JArr(<<JStr(S_tank_b), JNull, JStr(S_done)>>),
                      message |-> JInt(5)])),
          BJson(JObj([locked |-> JBool(TRUE), job_id |-> JInt(17),
                      message |-> JStr(S_done)])),
          BJson(JObj([locked |-> JStr(S_true)])),
          BJson(JBool(FALSE)), BJson(JStr(S_true)), BJson(JStr(<<" ">> \o S_false)),
          BJson(JStr(<<"-", "5", "\n">>)), BJson(JStr(<<"1", ".", "5">>)),
          BJson(JInt(-5)), BJson(JFloat(35)), BJson(JArr(<<>>)),
          BText(<<" ", "-", "5", "\n">>), BText(<<"1", "7", "x">>)}

\* A call is made in a state in which no invocation runs.
CallsInit ==
    /\ pc = "call"
    /\ cfg = None
    /\ stored_auth = None
    /\ unlock_secret = None
    /\ requests = <<>>
    /\ headers = <<>>
    /\ last_response = None
    /\ result = None
    /\ post_result = None
    /\ get_result = None
    /\ job = None
    /\ last_progress = None
    /\ reported = <<>>
    /\ stdout = <<>>
    /\ stderr = <<>>
    /\ wait_result = None
    /\ exit = None
    /\ polls = 0
    /\ sleeps = 0
    /\ clock = 0
    /\ ret = None
    /\ \/ \E body \in ParseBodies :
            call = Some([fn |-> "parse_unlock_response", body |-> body])
       \/ \E body \in ParseBodies :
            call = Some([fn |-> "parse_lock_response", body |-> body])
       \/ \E dataset \in {S_tank_b, S_nas}, unlock_mode \in {"Passphrase", "Key"},
             value \in {S_hunter2, <<" ", "k", " ">>},
             options \in [recursive : BOOLEAN, force : BOOLEAN,
                          toggle_attachments : BOOLEAN] :
            call = Some([fn |-> "unlock_dataset", dataset |-> dataset,
                         unlock_mode |-> unlock_mode, value |-> value,
                         options |-> options])
       \/ \E store \in Stores, selector \in Selectors :
            call = Some([fn |-> "find_entry", store |-> store,
                         selector |-> selector])
       \/ \E entry \in FieldEntries, field \in FieldNames :
            call = Some([fn |-> "required_field", entry |-> entry,
                         field |-> field, entry_label |-> S_nas])

Returns(value) ==
    /\ ret' = Some(value)
    /\ pc' = "return"
    /\ UNCHANGED <<cfg, stored_auth, unlock_secret, requests, headers,
                   last_response, result, post_result, get_result, job,
                   last_progress, reported, stdout, stderr, wait_result, exit,
                   polls, sleeps, clock, call>>

ParseUnlockResponse ==
    /\ pc = "call"
    /\ Unwrap(call).fn = "parse_unlock_response"
    /\ Returns(parse_unlock_response(Unwrap(call).body))

ParseLockResponse ==
    /\ pc = "call"
    /\ Unwrap(call).fn = "parse_lock_response"
    /\ Returns(parse_lock_response(Unwrap(call).body))

\* unlock_volume's choice of the secret and unlock_dataset up to the body
\* of its request.
BuildUnlockRequest ==
    /\ pc = "call"
    /\ Unwrap(call).fn = "unlock_dataset"
    /\ LET c == Unwrap(call)
           secret == UnlockSecretOf(c.unlock_mode, c.value)
       IN  Returns(SerializeUnlockRequest(UnlockRequestOf(c.dataset, secret, c.options)))

FindEntry ==
    /\ pc = "call"
    /\ Unwrap(call).fn = "find_entry"
    /\ Returns(find_entry(Unwrap(call).store, Unwrap(call).selector))

RequiredField ==
    /\ pc = "call"
    /\ Unwrap(call).fn = "required_field"
    /\ LET c == Unwrap(call)
       IN  Returns(required_field(c.entry, c.field, c.entry_label))

CallsNext ==
    \/ ParseUnlockResponse
    \/ ParseLockResponse
    \/ BuildUnlockRequest
    \/ FindEntry
    \/ RequiredField

SpecCalls == CallsInit /\ [][CallsNext]_vars

----------------------------------------------------------------------------
(* Properties                                                              *)

TerminalStates == {Some(S_SUCCESS), Some(S_FAILED), Some(S_ABORTED)}

\* C1: in wait_for_job a poll whose state is exactly "SUCCESS" ends the wait
\* with Ok of that poll's JobInfo, a poll whose state is exactly "FAILED" or
\* "ABORTED" ends it with a JobFailed error, the wait returns Ok for no
\* other reason, and once the wait has returned its result stays what it is
\* and no further request is issued.
C1_TerminalPollEndsWait ==
    /\ [](IsSome(job) /\ Unwrap(job).state = Some(S_SUCCESS)
            => pc = "done" /\ wait_result = Some(Ok(Unwrap(job))))
    /\ [](IsSome(job) /\ Unwrap(job).state \in {Some(S_FAILED), Some(S_ABORTED)}
            => /\ pc = "done"
               /\ IsSome(wait_result)
               /\ IsErr(Unwrap(wait_result))
               /\ Unwrap(wait_result).v.kind = "JobFailed")
    /\ [](IsSome(wait_result) /\ IsOk(Unwrap(wait_result))
            => /\ job = Some(Unwrap(wait_result).v)
               /\ Unwrap(job).state = Some(S_SUCCESS))
    /\ [][IsSome(wait_result)
            => wait_result' = wait_result /\ requests' = requests]_vars

\* C1 witness: the wait returned Ok after polls that were still pending.
C1_Witness ==
    /\ pc = "done"
    /\ polls >= 2
    /\ IsSome(wait_result)
    /\ IsOk(Unwrap(wait_result))

\* The JobFailed error of the wait, when it ended with one.
WaitFailedWith(detail) ==
    /\ IsSome(wait_result)
    /\ IsErr(Unwrap(wait_result))
    /\ Unwrap(wait_result).v.kind = "JobFailed"
    /\ Unwrap(wait_result).v.msg.detail = detail

FailedPoll == IsSome(job) /\ Unwrap(job).state \in {Some(S_FAILED), Some(S_ABORTED)}

\* C2 as stated: the detail of the JobFailed error is the error field when
\* present, else the exception field when present, else the fallback text.
C2_DetailIsField ==
    FailedPoll =>
        WaitFailedWith(IF IsSome(Unwrap(job).error) THEN Unwrap(Unwrap(job).error)
                       ELSE IF IsSome(Unwrap(job).exception)
                       THEN Unwrap(Unwrap(job).exception)
                       ELSE S_job_failed)

\* C2 amended: the detail of the JobFailed error is the error field when
\* present, else the exception field when present, else the fallback text,
\* in each case with the surrounding whitespace trimmed; the exception is
\* never used when an error is present.
C2_DetailIsTrimmedField ==
    FailedPoll =>
        WaitFailedWith(IF IsSome(Unwrap(job).error)
                       THEN Trim(Unwrap(Unwrap(job).error))
                       ELSE IF IsSome(Unwrap(job).exception)
                       THEN Trim(Unwrap(Unwrap(job).exception))
                       ELSE S_job_failed)

\* C2 witness: a failed job that carries both an error and an exception.
C2_Witness ==
    /\ FailedPoll
    /\ IsSome(Unwrap(job).error)
    /\ IsSome(Unwrap(job).exception)
    /\ IsSome(wait_result)

\* C3: a poll whose state is absent or is a string other than the three
\* terminal ones leaves the wait pending; it is followed by one sleep of one
\* second and then by the next poll; the wait ends only on a terminal state
\* or on a query error, whatever the number of pending polls.
C3_PendingPollSleepsAndRepolls ==
    /\ [](IsSome(job) /\ Unwrap(job).state \notin TerminalStates
            => pc = "sleep" /\ wait_result = None /\ exit = None)
    /\ [](sleeps = (IF pc = "post" \/ polls = 0 THEN polls ELSE polls - 1))
    /\ [](clock = sleeps * 1)
    /\ [][pc = "sleep"
            => /\ pc' = "post"
               /\ sleeps' = sleeps + 1
               /\ clock' = clock + 1
               /\ requests' = requests]_vars
    /\ [][pc = "post"
            => /\ requests' = Append(requests, Request("POST", JobsPath))
               /\ polls' = polls + 1]_vars
    /\ [](IsSome(wait_result)
            => \/ IsSome(job) /\ Unwrap(job).state \in TerminalStates
               \/ /\ IsErr(Unwrap(wait_result))
                  /\ Unwrap(wait_result).v.kind = "JobQueryFailed")

\* C3 witness: two pending polls, each followed by its sleep, and the wait
\* is about to poll again.
C3_Witness ==
    /\ pc = "post"
    /\ polls >= 2
    /\ sleeps = polls
    /\ wait_result = None

\* Whether a JSON document holds a record of the job: an object, or an item
\* of an array, whose id is the integer job_id.
IsRecordOf(v, job_id) ==
    /\ Kind(v) = "obj"
    /\ "id" \in DOMAIN Val(v)
    /\ Val(v)["id"] = JInt(job_id)

HasRecord(v, job_id) ==
    \/ IsRecordOf(v, job_id)
    \/ /\ Kind(v) = "arr"
       /\ \E i \in 1..Len(Val(v)) : IsRecordOf(Val(v)[i], job_id)

\* A response with which a job query fails: transport error, status that is
\* not 2xx, body that is not JSON, or no record of the job.
QueryFails(resp, job_id) ==
    \/ resp.kind # "response"
    \/ resp.status < 200
    \/ resp.status > 299
    \/ IsNone(resp.body.json)
    \/ ~HasRecord(Unwrap(resp.body.json), job_id)

\* C4: in one get_job call the POST query is issued first and once, the GET
\* query at most once and only after the POST attempt failed; a POST attempt
\* that succeeds is what get_job returns, without a GET.
C4_PostFirstGetOnlyOnFailure ==
    /\ [](\A i \in 1..Len(requests) :
            requests[i] = Request("GET", JobsPath)
                => i > 1 /\ requests[i - 1] = Request("POST", JobsPath))
    /\ [](Cardinality({i \in 1..Len(requests) :
                          requests[i] = Request("POST", JobsPath)}) = polls)
    /\ [](pc = "get"
            => /\ IsSome(post_result)
               /\ IsErr(Unwrap(post_result))
               /\ QueryFails(Unwrap(last_response), RequestedJobId)
               /\ requests[Len(requests)] = Request("POST", JobsPath))
    /\ [](IsSome(get_result)
            => /\ IsSome(post_result)
               /\ IsErr(Unwrap(post_result))
               /\ requests[Len(requests)] = Request("GET", JobsPath))
    /\ [](IsSome(post_result) /\ IsOk(Unwrap(post_result))
            => /\ job = Some(Unwrap(post_result).v)
               /\ get_result = None
               /\ requests[Len(requests)] = Request("POST", JobsPath))
    /\ [][pc = "get"
            => requests' = Append(requests, Request("GET", JobsPath)) /\ pc' # "get"]_vars

\* C4 witness: one get_job call answered by its POST attempt and a later
\* one that needed the GET attempt.
C4_Witness ==
    /\ Len(requests) >= 4
    /\ requests[2] = Request("POST", JobsPath)
    /\ requests[3] = Request("POST", JobsPath)
    /\ requests[4] = Request("GET", JobsPath)
    /\ IsSome(get_result)

\* C5: when the POST attempt fails and the GET attempt succeeds, get_job
\* returns the JobInfo of the GET attempt; when both fail, it returns one
\* error that holds the message of the POST error and that of the GET error.
C5_FallbackResult ==
    IsSome(get_result) /\ IsSome(post_result) /\ IsErr(Unwrap(post_result)) =>
        /\ IsOk(Unwrap(get_result)) => job = Some(Unwrap(get_result).v)
        /\ IsErr(Unwrap(get_result)) =>
            /\ job = None
            /\ IsSome(wait_result)
            /\ IsErr(Unwrap(wait_result))
            /\ Unwrap(wait_result).v.kind = "JobQueryFailed"
            /\ Unwrap(wait_result).v.msg.post =
                   [kind |-> Unwrap(post_result).v.kind, msg |-> Unwrap(post_result).v.msg]
            /\ Unwrap(wait_result).v.msg.get =
                   [kind |-> Unwrap(get_result).v.kind, msg |-> Unwrap(get_result).v.msg]

\* C5 witness: both attempts failed, in different ways.
C5_Witness ==
    /\ IsSome(get_result)
    /\ IsSome(post_result)
    /\ IsErr(Unwrap(post_result))
    /\ IsErr(Unwrap(get_result))
    /\ Unwrap(post_result).v.kind # Unwrap(get_result).v.kind
    /\ IsSome(wait_result)

\* The result of the latest attempt of the current get_job call.
LastAttempt == IF IsSome(get_result) THEN get_result ELSE post_result

\* C6: a job query is Ok only when its 2xx response is a JSON document that
\* holds a record of the requested job, and then the JobInfo has that id; a
\* JSON document without such a record gives JobNotFound, which a transport
\* failure never gives; every JobInfo get_job and wait_for_job return has
\* the requested id.
C6_JobIdMatches ==
    /\ IsSome(LastAttempt) =>
        LET r == Unwrap(LastAttempt)
            resp == Unwrap(last_response)
        IN  /\ IsOk(r) => /\ ~QueryFails(resp, RequestedJobId)
                          /\ r.v.id = RequestedJobId
            /\ ( /\ resp.kind = "response"
                 /\ resp.status \in 200..299
                 /\ IsSome(resp.body.json)
                 /\ ~HasRecord(Unwrap(resp.body.json), RequestedJobId) )
                    => IsErr(r) /\ r.v.kind = "JobNotFound"
            /\ resp.kind = "send_error" => IsErr(r) /\ r.v.kind = "TransportError"
    /\ IsSome(job) => Unwrap(job).id = RequestedJobId
    /\ IsSome(wait_result) /\ IsOk(Unwrap(wait_result))
            => Unwrap(wait_result).v.id = RequestedJobId

\* C6 witness: the record of the requested job was found in an array behind
\* the record of another job.
C6_Witness ==
    /\ IsSome(job)
    /\ IsSome(last_response)
    /\ Unwrap(last_response).kind = "response"
    /\ IsSome(Unwrap(last_response).body.json)
    /\ Kind(Unwrap(Unwrap(last_response).body.json)) = "arr"
    /\ Len(Val(Unwrap(Unwrap(last_response).body.json))) > 1

\* C7: a failed or aborted job and an error of get_job end the wait with
\* that error at once; after it no request is issued and no poll is made.
C7_ErrorsAreNotRetried ==
    /\ [](IsSome(get_result) /\ IsErr(Unwrap(get_result))
            => /\ pc = "done"
               /\ IsSome(wait_result)
               /\ IsErr(Unwrap(wait_result))
               /\ Unwrap(wait_result).v.kind = "JobQueryFailed"
               /\ Unwrap(wait_result).v.msg.get.kind = Unwrap(get_result).v.kind)
    /\ [](IsSome(job) /\ Unwrap(job).state \in {Some(S_FAILED), Some(S_ABORTED)}
            => /\ IsSome(wait_result)
               /\ Unwrap(wait_result) = Err(JobFailed(RequestedJobId, Unwrap(job))))
    /\ [](IsSome(wait_result) /\ IsErr(Unwrap(wait_result))
            => pc = "done" /\ exit = wait_result)
    /\ [][IsSome(wait_result) /\ IsErr(Unwrap(wait_result))
            => UNCHANGED <<requests, polls, sleeps, wait_result>>]_vars

\* C7 witness: after pending polls, a poll found no record of the job in
\* either attempt and the wait ended.
C7_Witness ==
    /\ polls >= 2
    /\ pc = "done"
    /\ IsSome(wait_result)
    /\ IsErr(Unwrap(wait_result))
    /\ Unwrap(wait_result).v.kind = "JobQueryFailed"
    /\ Unwrap(wait_result).v.msg.post.kind = "JobNotFound"
    /\ Unwrap(wait_result).v.msg.get.kind = "JobNotFound"

\* A step in which get_job returns a job to the loop, and whether that step
\* prints a progress line.
PollReturns == IsNone(job) /\ IsSome(job')

ProgressFormats == {"job {}: {:.0}% {}", "job {}: {:.0}%", "job {}: {}"}

PrintsProgress ==
    /\ Len(stdout') = Len(stdout) + 1
    /\ stdout'[Len(stdout')].fmt \in ProgressFormats

\* The (percent, description) tuple of the job the step returns.
PolledTuple == <<Unwrap(job').progress_percent, Unwrap(job').progress_description>>

\* C8 as stated: on each poll a progress line is printed if and only if the
\* tuple of the poll differs from the last reported tuple.
C8_EmitsIffDiffers ==
    [][PollReturns => (PrintsProgress <=> last_progress # Some(PolledTuple))]_vars

\* C8 amended: on each poll that reports no terminal state a progress line
\* is printed if and only if the tuple has a percent or a description and
\* differs from the last reported tuple; the line shows the percent alone,
\* the description alone or both, according to which are present, and the
\* tuple becomes the last reported one; a poll that reports a terminal
\* state, or whose tuple is empty or equal to the last reported one, prints
\* no progress line and leaves the last reported tuple as it is.
C8_EmitsIffPendingNonEmptyAndDiffers ==
    [][PollReturns =>
        LET shown == /\ Unwrap(job').state \notin TerminalStates
                     /\ PolledTuple # <<None, None>>
                     /\ last_progress # Some(PolledTuple)
            line == stdout'[Len(stdout')]
        IN  /\ PrintsProgress <=> shown
            /\ shown =>
                /\ last_progress' = Some(PolledTuple)
                /\ line.fmt =
                     IF IsNone(PolledTuple[2]) THEN "job {}: {:.0}%"
                     ELSE IF IsNone(PolledTuple[1]) THEN "job {}: {}"
                     ELSE "job {}: {:.0}% {}"
                /\ IsSome(PolledTuple[2]) => line.args[Len(line.args)] = Unwrap(PolledTuple[2])
            /\ ~shown => last_progress' = last_progress]_vars

\* C8 witness: a progress line with percent and description was printed
\* after another progress line.
C8_Witness ==
    /\ pc = "sleep"
    /\ Len(reported) >= 2
    /\ last_progress = Some(ProgressOf(Unwrap(job)))
    /\ stdout[Len(stdout)].fmt = "job {}: {:.0}% {}"

\* C9 as stated: in one wait there is at most one progress emission for
\* each distinct progress tuple.
C9_OneEmissionPerTuple ==
    \A i, k \in 1..Len(reported) : i # k => reported[i] # reported[k]

\* C9 amended: in one wait no two consecutive progress emissions carry the
\* same tuple; a tuple is emitted again when another one was emitted in
\* between.
C9_NoRepeatedConsecutiveEmission ==
    /\ \A i \in 1..(Len(reported) - 1) : reported[i] # reported[i + 1]
    /\ last_progress = (IF reported = <<>> THEN None ELSE Some(reported[Len(reported)]))
    /\ Len(reported) = Cardinality({i \in 1..Len(stdout) : stdout[i].fmt \in ProgressFormats})

\* C9 witness: a tuple was emitted, then another, then the first again.
C9_Witness ==
    /\ Len(reported) >= 3
    /\ reported[1] = reported[3]

\* The failed map of the unlock response, when the latest request is the
\* unlock call, the status is 2xx and the body is a JSON object whose
\* "failed" key holds an object; the empty function otherwise.
UnlockFailedMap ==
    IF /\ IsSome(last_response)
       /\ requests[Len(requests)] = Request("POST", UnlockPath)
       /\ Unwrap(last_response).kind = "response"
       /\ Unwrap(last_response).status \in 200..299
       /\ IsSome(Unwrap(last_response).body.json)
       /\ Kind(Unwrap(Unwrap(last_response).body.json)) = "obj"
       /\ "failed" \in DOMAIN Val(Unwrap(Unwrap(last_response).body.json))
       /\ Kind(Val(Unwrap(Unwrap(last_response).body.json))["failed"]) = "obj"
    THEN Val(Val(Unwrap(Unwrap(last_response).body.json))["failed"])
    ELSE <<>>

\* C10: when the 2xx unlock response carries a non-empty failed map,
\* unlock_volume reports every (name, reason) pair and fails, whatever else
\* the response carries, and the unlock request stays the only request.
C10_FailedMapFailsInvocation ==
    DOMAIN UnlockFailedMap # {} =>
        /\ pc = "done"
        /\ IsSome(exit)
        /\ IsErr(Unwrap(exit))
        /\ Unwrap(exit).v.kind = "UnlockFailed"
        /\ requests = <<Request("POST", UnlockPath)>>
        /\ wait_result = None
        /\ Len(stderr) = Cardinality(DOMAIN UnlockFailedMap)
        /\ \A name \in DOMAIN UnlockFailedMap :
            \E i \in 1..Len(stderr) :
                /\ stderr[i].fmt = "failed to unlock {}: {}"
                /\ stderr[i].args[1] = name
                /\ stderr[i].args[2] =
                     IF Kind(UnlockFailedMap[name]) = "str"
                     THEN Val(UnlockFailedMap[name])
                     ELSE JsonToString(UnlockFailedMap[name])

\* C10 witness: the response carried failures together with a job id, an
\* unlocked dataset and a message.
C10_Witness ==
    /\ Cardinality(DOMAIN UnlockFailedMap) = 2
    /\ IsSome(result)
    /\ IsSome(Unwrap(result).job_id)
    /\ Unwrap(result).unlocked # <<>>
    /\ IsSome(Unwrap(result).message)
    /\ IsSome(exit)

\* The unlock call and the job-status queries among the requests.
IsUnlockRequest(r) == r = Request("POST", UnlockPath)
IsJobRequest(r) == r \in {Request("POST", JobsPath), Request("GET", JobsPath)}

\* C11: one invocation issues at most one unlock request, and it is the
\* first request; every later request is a job-status query, issued only
\* after the unlock call returned a result with a job id, which it does only
\* on a 2xx response; each step issues at most one request and holds its
\* answer before the next is issued; wait_for_job is entered at most once,
\* from the unlock call, and after it returned nothing more is requested.
C11_OneUnlockThenOnePollLoop ==
    /\ [](requests # <<>> =>
            /\ IsUnlockRequest(requests[1])
            /\ \A i \in 2..Len(requests) : IsJobRequest(requests[i]))
    /\ [](Len(requests) > 1 => IsSome(result) /\ IsSome(Unwrap(result).job_id))
    /\ [][pc = "unlock" =>
            /\ requests' = <<Request("POST", UnlockPath)>>
            /\ IsSome(result') <=>
                 /\ Unwrap(last_response').kind = "response"
                 /\ Unwrap(last_response').status \in 200..299]_vars
    /\ [][requests' # requests =>
            /\ \E r \in {Request("POST", UnlockPath), Request("POST", JobsPath),
                         Request("GET", JobsPath)} : requests' = Append(requests, r)
            /\ IsSome(last_response')]_vars
    /\ [][pc' = "unlock" => pc = "resolve"]_vars
    /\ [][pc # "unlock" => result' = result /\ polls' >= polls
                           /\ Len(reported') >= Len(reported)]_vars
    /\ [](IsSome(wait_result) => pc = "done")
    /\ [][pc = "done" => requests' = requests]_vars

\* C11 witness: the unlock call, then a loop of three polls, one of them
\* with its GET query, and the invocation has ended.
C11_Witness ==
    /\ pc = "done"
    /\ Len(requests) >= 5
    /\ polls = 3
    /\ IsSome(wait_result)

\* The unlock call was answered with a status that is not 2xx.
UnlockRefused ==
    /\ Len(requests) = 1
    /\ IsSome(last_response)
    /\ Unwrap(last_response).kind = "response"
    /\ Unwrap(last_response).status \notin 200..299

\* C12: when the unlock call is answered with a status that is not 2xx,
\* unlock_volume ends with an ApiError that holds the status and the
\* trimmed body; no result is made of the body, nothing is printed, no job
\* is waited for and no further request is issued.  lock_dataset, which no
\* command calls, answers the same responses with the same error.
C12_NonSuccessIsApiError ==
    /\ [](UnlockRefused =>
            /\ pc = "done"
            /\ result = None
            /\ IsSome(exit)
            /\ IsErr(Unwrap(exit))
            /\ Unwrap(exit).v =
                 Error("ApiError",
                       [status |-> Unwrap(last_response).status,
                        body |-> TrimBody(Unwrap(last_response).body)],
                       None)
            /\ wait_result = None
            /\ polls = 0
            /\ stdout = <<>>
            /\ stderr = <<>>)
    /\ [][UnlockRefused => requests' = requests]_vars
    /\ [](\A response \in UnlockResponses :
            response.kind = "response" /\ response.status \notin 200..299 =>
                /\ IsErr(lock_dataset(response))
                /\ lock_dataset(response).v =
                     Error("ApiError",
                           [status |-> response.status,
                            body |-> TrimBody(response.body)],
                           None))

\* C12 witness: a refused unlock call whose body is a JSON object with a
\* job_id.
C12_Witness ==
    /\ UnlockRefused
    /\ IsSome(Unwrap(last_response).body.json)
    /\ "job_id" \in DOMAIN Val(Unwrap(Unwrap(last_response).body.json))
    /\ IsSome(exit)

\* A call of fn has returned; its arguments and what it returned.
Returned(fn) == pc = "return" /\ IsSome(call) /\ Unwrap(call).fn = fn /\ IsSome(ret)
Args == Unwrap(call)
Ret == Unwrap(ret)

\* Only the job id, or only the message, of an UnlockResult is populated.
OnlyJobId(res) == res.unlocked = <<>> /\ res.failed = <<>> /\ res.message = None
OnlyMessage(res) == res.job_id = None /\ res.unlocked = <<>> /\ res.failed = <<>>

\* Every populated field of the result was read from the key of its name.
ReadFromKeys(map, res) ==
    /\ IsSome(res.job_id) <=>
         "job_id" \in DOMAIN map /\ Kind(map["job_id"]) = "int"
    /\ IsSome(res.job_id) => map["job_id"] = JInt(Unwrap(res.job_id))
    /\ res.unlocked # <<>> =>
         /\ "unlocked" \in DOMAIN map
         /\ Kind(map["unlocked"]) = "arr"
         /\ \A i \in 1..Len(res.unlocked) :
              \E k \in 1..Len(Val(map["unlocked"])) :
                  Val(map["unlocked"])[k] = JStr(res.unlocked[i])
    /\ res.failed # <<>> =>
         /\ "failed" \in DOMAIN map
         /\ Kind(map["failed"]) = "obj"
         /\ \A i \in 1..Len(res.failed) : res.failed[i][1] \in DOMAIN Val(map["failed"])
    /\ IsSome(res.message) <=>
         "message" \in DOMAIN map /\ Kind(map["message"]) = "str"
    /\ IsSome(res.message) => map["message"] = JStr(Unwrap(res.message))

\* What parse_unlock_response makes of a body that is a JSON document, when
\* the numbers in Numbers are the ones treated as a job id.
ShapeSelectsField(value, res, Numbers) ==
    CASE Kind(value) = "obj" -> ReadFromKeys(Val(value), res)
      [] Kind(value) \in Numbers -> IsSome(res.job_id) /\ OnlyJobId(res)
      [] Kind(value) = "str" /\ IsSome(ParseI64(Trim(Val(value)))) ->
           res.job_id = ParseI64(Trim(Val(value))) /\ OnlyJobId(res)
      [] Kind(value) = "str" -> res.message = Some(Val(value)) /\ OnlyMessage(res)
      [] OTHER -> res.message = Some(JsonToString(value)) /\ OnlyMessage(res)

\* C13 as stated: an empty body gives the empty result, a JSON object gives
\* the fields read from the keys of their names, a bare number or a numeric
\* string gives a job id and nothing else, any other JSON value gives a
\* message and nothing else.
C13_NumberIsJobId ==
    Returned("parse_unlock_response") =>
        /\ IsOk(Ret)
        /\ IF IsNone(Args.body.json)
           THEN Trim(Args.body.raw) = <<>> => Ret.v = DefaultUnlockResult
           ELSE ShapeSelectsField(Unwrap(Args.body.json), Ret.v, {"int", "float"})

\* C13 amended: an empty body gives the empty result; a JSON object gives
\* the fields read from the keys of their names; a bare integer number, or
\* a string that parses as an integer once trimmed, gives that job id and
\* nothing else ("17" gives job id 17); any other JSON value, a number that
\* is no integer included, gives a message and nothing else: a string as it
\* is, any other value stringified; a body that is no JSON document gives
\* its trimmed text as the job id when it is an integer, as the message
\* otherwise.
C13_IntegerIsJobId ==
    Returned("parse_unlock_response") =>
        /\ IsOk(Ret)
        /\ IF IsNone(Args.body.json)
           THEN LET trimmed == Trim(Args.body.raw) IN
                IF trimmed = <<>> THEN Ret.v = DefaultUnlockResult
                ELSE IF IsSome(ParseI64(trimmed))
                THEN Ret.v.job_id = ParseI64(trimmed) /\ OnlyJobId(Ret.v)
                ELSE Ret.v.message = Some(trimmed) /\ OnlyMessage(Ret.v)
           ELSE /\ ShapeSelectsField(Unwrap(Args.body.json), Ret.v, {"int"})
                /\ Kind(Unwrap(Args.body.json)) = "int" =>
                     Ret.v.job_id = Some(Val(Unwrap(Args.body.json)))

\* C13 witness: the body is the JSON string "17" and the job id is 17.
C13_Witness ==
    /\ Returned("parse_unlock_response")
    /\ Args.body = BJson(JStr(S_17))
    /\ Ret.v.job_id = Some(17)

\* The key is present in the map with a value of the given kind.
HasKey(map, key, kind) == key \in DOMAIN map /\ Kind(map[key]) = kind

\* The map without the keys outside the given set.
Restrict(map, keys) == [k \in DOMAIN map \cap keys |-> map[k]]

\* C14: for a body that is a JSON object, job_id is populated exactly when
\* the key job_id holds an integer, unlocked holds the strings of the array
\* under the key unlocked, in order, failed holds one pair for every member
\* of the object under the key failed, message is populated exactly when
\* the key message holds a string; each field is what it would be if its
\* key were the only one of the object, so that no field suppresses or
\* alters another, and {"job_id": 42} gives job id 42 and nothing else.
C14_FieldsAreIndependent ==
    Returned("parse_unlock_response") /\ IsSome(Args.body.json)
        /\ Kind(Unwrap(Args.body.json)) = "obj" =>
    LET map == Val(Unwrap(Args.body.json))
        res == Ret.v
        items == IF HasKey(map, "unlocked", "arr") THEN Val(map["unlocked"]) ELSE <<>>
        strings == {k \in 1..Len(items) : Kind(items[k]) = "str"}
        reasons == IF HasKey(map, "failed", "obj") THEN Val(map["failed"]) ELSE <<>>
    IN  /\ IsOk(Ret)
        /\ res.job_id = (IF HasKey(map, "job_id", "int")
                         THEN Some(Val(map["job_id"])) ELSE None)
        /\ Len(res.unlocked) = Cardinality(strings)
        /\ \A i \in 1..Len(res.unlocked) :
             \E k \in strings :
                 /\ Cardinality({n \in strings : n < k}) = i - 1
                 /\ items[k] = JStr(res.unlocked[i])
        /\ Len(res.failed) = Cardinality(DOMAIN reasons)
        /\ \A name \in DOMAIN reasons :
             \E i \in 1..Len(res.failed) :
                 /\ res.failed[i][1] = name
                 /\ res.failed[i][2] =
                      IF Kind(reasons[name]) = "str" THEN Val(reasons[name])
                      ELSE JsonToString(reasons[name])
        /\ res.message = (IF HasKey(map, "message", "str")
                          THEN Some(Val(map["message"])) ELSE None)
        /\ res.job_id = UnlockFromObject(Restrict(map, {"job_id"})).job_id
        /\ res.unlocked = UnlockFromObject(Restrict(map, {"unlocked"})).unlocked
        /\ res.failed = UnlockFromObject(Restrict(map, {"failed"})).failed
        /\ res.message = UnlockFromObject(Restrict(map, {"message"})).message
        /\ DOMAIN map = {"job_id"} /\ map["job_id"] = JInt(42) =>
             res = [job_id |-> Some(42), unlocked |-> <<>>, failed |-> <<>>,
                    message |-> None]

\* C14 witness: one object populated all four fields.
C14_Witness ==
    /\ Returned("parse_unlock_response")
    /\ IsSome(Args.body.json)
    /\ Kind(Unwrap(Args.body.json)) = "obj"
    /\ IsSome(Ret.v.job_id)
    /\ Ret.v.unlocked # <<>>
    /\ Len(Ret.v.failed) = 2
    /\ IsSome(Ret.v.message)

\* The body is a JSON boolean, or a JSON string that reads true or false
\* once trimmed.
ReadsAsBool(body) ==
    /\ IsSome(body.json)
    /\ \/ Kind(Unwrap(body.json)) = "bool"
       \/ /\ Kind(Unwrap(body.json)) = "str"
          /\ Trim(Val(Unwrap(body.json))) \in {S_true, S_false}

\* C15: for every body parse_lock_response yields the job id that
\* parse_unlock_response yields, and the same message unless it reads the
\* body as a boolean; a bare boolean becomes the locked flag, with no job
\* id and no message.
C15_LockParsesLikeUnlock ==
    Returned("parse_lock_response") =>
        LET unlock == parse_unlock_response(Args.body) IN
        /\ IsOk(Ret)
        /\ IsOk(unlock)
        /\ Ret.v.job_id = unlock.v.job_id
        /\ ~ReadsAsBool(Args.body) => Ret.v.message = unlock.v.message
        /\ \A b \in BOOLEAN :
             Args.body = BJson(JBool(b)) =>
                 Ret.v = [job_id |-> None, locked |-> b, message |-> None]

\* C15 witness: the body true was parsed to locked = true.
C15_Witness ==
    /\ Returned("parse_lock_response")
    /\ Args.body = BJson(JBool(TRUE))
    /\ Ret.v.locked

\* The members of unlock_options in the body of the unlock request, and
\* the members of its first datasets record.
BodyOptions == Val(Val(Ret)["unlock_options"])
BodyDataset == Val(Val(BodyOptions["datasets"])[1])

\* C16: the body of the unlock request holds exactly one datasets record;
\* the record is named after the dataset and holds, besides the name, only
\* the passphrase when the unlock mode is Passphrase and only the key when
\* it is Key, with the configured secret as its value; the other member is
\* absent from the body, not null; key_file is false.
C16_OneSecretMemberSerialized ==
    Returned("unlock_dataset") =>
        /\ Kind(Ret) = "obj"
        /\ DOMAIN Val(Ret) = {"id", "unlock_options"}
        /\ Val(Ret)["id"] = JStr(Args.dataset)
        /\ BodyOptions["key_file"] = JBool(FALSE)
        /\ Kind(BodyOptions["datasets"]) = "arr"
        /\ Len(Val(BodyOptions["datasets"])) = 1
        /\ BodyDataset["name"] = JStr(Args.dataset)
        /\ \A k \in DOMAIN BodyDataset : BodyDataset[k] # JNull
        /\ Args.unlock_mode = "Passphrase" =>
             /\ DOMAIN BodyDataset = {"name", "passphrase"}
             /\ BodyDataset["passphrase"] = JStr(Args.value)
        /\ Args.unlock_mode = "Key" =>
             /\ DOMAIN BodyDataset = {"name", "key"}
             /\ BodyDataset["key"] = JStr(Args.value)

\* C16 witness: a request built for the unlock mode Key holds the key and
\* no passphrase.
C16_Witness ==
    /\ Returned("unlock_dataset")
    /\ Args.unlock_mode = "Key"
    /\ "key" \in DOMAIN BodyDataset
    /\ "passphrase" \notin DOMAIN BodyDataset

\* The selector of the call, trimmed, and the same in lower case.
TrimmedSelector == Trim(Args.selector)
LoweredSelector == ToAsciiLowercase(TrimmedSelector)

\* The text behind a prefix of the given length, trimmed.
TokenAfter(n) == Trim(SubSeq(TrimmedSelector, n + 1, Len(TrimmedSelector)))

HasUuidPrefix == Len(LoweredSelector) >= 5 /\ SubSeq(LoweredSelector, 1, 5) = S_uuid_prefix
HasTitlePrefix ==
    /\ ~HasUuidPrefix
    /\ Len(LoweredSelector) >= 6
    /\ SubSeq(LoweredSelector, 1, 6) = S_title_prefix

\* The node is an entry whose UUID the token names, or whose title the token
\* is.
MatchesUuid(node, token) ==
    node.kind = "entry" /\ parse_uuid(token) = Some(node.uuid)
MatchesTitle(node, token) ==
    node.kind = "entry" /\ S_Title \in DOMAIN node.fields /\ node.fields[S_Title] = token

\* What find_entry returned is the first node of the store that satisfies
\* Hit, or nothing when no node does.
ReturnsFirst(Hit(_)) ==
    LET store == Args.store IN
    IF \E k \in 1..Len(store) : Hit(store[k])
    THEN /\ IsSome(Ret)
         /\ Hit(store[Unwrap(Ret)])
         /\ \A k \in 1..(Unwrap(Ret) - 1) : ~Hit(store[k])
    ELSE Ret = None

\* C17: for a selector without a prefix find_entry returns the first entry
\* in store order whose UUID is the one the selector names or whose title
\* is the selector, whichever of the two tests it satisfies, and nothing
\* when no entry satisfies either.
C17_AutoReturnsFirstHit ==
    Returned("find_entry") /\ ~HasUuidPrefix /\ ~HasTitlePrefix =>
        ReturnsFirst(LAMBDA node : \/ MatchesUuid(node, TrimmedSelector)
                                   \/ MatchesTitle(node, TrimmedSelector))

\* C17 witness: the first entry has the selector as its title, the second
\* has the UUID the selector names, and the first was returned.
C17_Witness ==
    /\ Returned("find_entry")
    /\ Args.selector = U1Hyphenated
    /\ Len(Args.store) = 2
    /\ MatchesTitle(Args.store[1], U1Hyphenated)
    /\ Args.store[2].kind = "entry"
    /\ Args.store[2].uuid = U1
    /\ Ret = Some(1)

\* C18: for a selector with the prefix uuid:, in any letter case,
\* find_entry returns the first entry whose UUID the token names and
\* nothing when the token names no UUID or no entry has it, whatever the
\* titles are; with the prefix title: it returns the first entry whose
\* title is the token, letter for letter, and nothing otherwise, whatever
\* the UUIDs are.
C18_PrefixForcesMode ==
    Returned("find_entry") =>
        /\ HasUuidPrefix =>
             /\ ReturnsFirst(LAMBDA node : MatchesUuid(node, TokenAfter(5)))
             /\ IsNone(parse_uuid(TokenAfter(5))) => Ret = None
        /\ HasTitlePrefix =>
             ReturnsFirst(LAMBDA node : MatchesTitle(node, TokenAfter(6)))

\* C18 witness: the token behind uuid: names no UUID and is the title of an
\* entry, and nothing was returned.
C18_Witness ==
    /\ Returned("find_entry")
    /\ Args.selector = S_uuid_prefix \o S_nas
    /\ \E k \in 1..Len(Args.store) : MatchesTitle(Args.store[k], S_nas)
    /\ Ret = None

\* The field name of the call, trimmed and in lower case, and whether it is
\* one of the built-in names.
LoweredField == ToAsciiLowercase(Trim(Args.field))
IsBuiltIn ==
    LoweredField \in UsernameAliases \cup PasswordAliases
                     \cup {<<"t", "i", "t", "l", "e">>, <<"u", "r", "l">>}

\* The call returned Ok of the value.
IsOkWith(r, value) == IsOk(r) /\ r.v = value

\* The value a lookup resolved to: the value found, or nothing when the
\* field is missing.
Resolved(r) == IF IsOk(r) THEN Some(r.v) ELSE None

\* The call ended with MissingField for the field and the entry it named.
IsMissingField(r) ==
    /\ IsErr(r)
    /\ r.v.kind = "MissingField"
    /\ r.v.msg = [field |-> Args.field, entry |-> Args.entry_label]

\* C19 as stated: two names of a custom field that differ only in letter
\* case or in surrounding whitespace resolve to the same value, and
\* MissingField is raised only when the entry has no field of that name,
\* letter case aside.
C19_CustomLookupIgnoresCase ==
    Returned("required_field") /\ ~IsBuiltIn =>
        /\ \A other \in FieldNames :
             ToAsciiLowercase(Trim(other)) = LoweredField =>
                 Resolved(required_field(Args.entry, other, Args.entry_label))
                     = Resolved(Ret)
        /\ IsErr(Ret) =>
             /\ IsMissingField(Ret)
             /\ \A name \in DOMAIN Args.entry.fields :
                  ToAsciiLowercase(name) # LoweredField

\* C19 amended: a field name that is not a built-in one is looked up among
\* the fields of the entry by its trimmed text, letter for letter: the
\* value of the field of exactly that name is returned, two names that
\* differ only in surrounding whitespace resolve to the same value, and
\* MissingField is raised exactly when the entry has no field of that name.
C19_CustomLookupIsTrimmedExact ==
    Returned("required_field") /\ ~IsBuiltIn =>
        /\ IF Trim(Args.field) \in DOMAIN Args.entry.fields
           THEN IsOkWith(Ret, Args.entry.fields[Trim(Args.field)])
           ELSE IsMissingField(Ret)
        /\ \A other \in FieldNames :
             Trim(other) = Trim(Args.field) =>
                 Resolved(required_field(Args.entry, other, Args.entry_label))
                     = Resolved(Ret)

\* C19 witness: a padded name resolved to the custom field of the trimmed
\* name in an entry that has a field of the same name in upper case.
C19_Witness ==
    /\ Returned("required_field")
    /\ Args.field = <<" ">> \o S_api_key \o <<"\t">>
    /\ S_API_KEY \in DOMAIN Args.entry.fields
    /\ IsOkWith(Ret, S_k1)

\* C20: a field name that reads, trimmed and in lower case, username,
\* user_name, user-name or user resolves to the username field of the
\* entry, and one that reads password or pass to its password field;
\* names that agree once trimmed and lowered resolve to the same value, and
\* MissingField is raised when the entry lacks that field.
C20_AliasesIgnoreCaseAndPadding ==
    Returned("required_field") =>
        /\ LoweredField \in UsernameAliases =>
             IF S_UserName \in DOMAIN Args.entry.fields
             THEN IsOkWith(Ret, Args.entry.fields[S_UserName])
             ELSE IsMissingField(Ret)
        /\ LoweredField \in PasswordAliases =>
             IF S_Password \in DOMAIN Args.entry.fields
             THEN IsOkWith(Ret, Args.entry.fields[S_Password])
             ELSE IsMissingField(Ret)
        /\ LoweredField \in UsernameAliases \cup PasswordAliases =>
             \A other \in FieldNames :
                 ToAsciiLowercase(Trim(other)) = LoweredField =>
                     Resolved(required_field(Args.entry, other, Args.entry_label))
                         = Resolved(Ret)

\* C20 witness: the name "  USERNAME " resolved to the username of an
\* entry.
C20_Witness ==
    /\ Returned("required_field")
    /\ Args.field = <<" ", " ", "U", "S", "E", "R", "N", "A", "M", "E", " ">>
    /\ IsOkWith(Ret, S_root)

\* The configuration names a volume and its NAS and the store was opened.
Configured == IsSome(cfg.volume) /\ IsSome(cfg.nas) /\ IsSome(cfg.store)

\* The entries the two selectors of the configuration find.  Option
AuthEntry == find_entry(Unwrap(cfg.store), Unwrap(cfg.nas).auth_entry)
UnlockEntry == find_entry(Unwrap(cfg.store), Unwrap(cfg.volume).unlock_entry)

\* The fields the configuration requires, as the entries hold them: the
\* username when the method is Basic, the password or API key, the unlock
\* secret.  A sequence of Option<&str>
RequiredValues ==
    LET nas == Unwrap(cfg.nas)
        auth_entry == Unwrap(cfg.store)[Unwrap(AuthEntry)]
        unlock_entry == Unwrap(cfg.store)[Unwrap(UnlockEntry)]
    IN  (IF nas.auth_method = "Basic"
         THEN <<entry_field(auth_entry, nas.username_field)>> ELSE <<>>)
        \o <<entry_field(auth_entry, nas.password_field),
              entry_field(unlock_entry, Unwrap(cfg.volume).unlock_field)>>

EntriesFound == IsSome(AuthEntry) /\ IsSome(UnlockEntry)
FieldsPresent == \A i \in 1..Len(RequiredValues) : IsSome(RequiredValues[i])
SecretsNonEmpty ==
    \A i \in 1..Len(RequiredValues) : Trim(Unwrap(RequiredValues[i])) # <<>>

\* The secrets unlock_volume holds: those of the credential, then the
\* unlock secret.
HeldSecrets ==
    (IF Unwrap(stored_auth).variant = "Basic"
     THEN <<Unwrap(stored_auth).username, Unwrap(stored_auth).password>>
     ELSE <<Unwrap(stored_auth).key>>)
    \o <<Unwrap(unlock_secret).value>>

\* C21: the step that resolves the secrets goes on to the unlock request
\* only when both entries were found, every required field was present and
\* every secret is non-empty once trimmed, and then holds the secrets as the
\* entries hold them; when the store was opened but an entry is not found,
\* a field is missing or a secret is blank, it ends the invocation in
\* failure (EntryNotFound when an entry is not found, MissingField or
\* EmptySecret otherwise).  No other step changes the secrets held, and a
\* request is issued only while non-blank secrets are held.
C21_NoRequestBeforeSecrets ==
    /\ [][pc = "resolve" =>
            /\ requests' = <<>>
            /\ IF Configured /\ EntriesFound /\ FieldsPresent /\ SecretsNonEmpty
               THEN pc' # "done" =>
                       /\ IsSome(stored_auth') /\ IsSome(unlock_secret')
                       /\ HeldSecrets' = [i \in 1..Len(RequiredValues) |->
                                             Unwrap(RequiredValues[i])]
               ELSE /\ pc' = "done"
                    /\ IsSome(exit') /\ IsErr(Unwrap(exit'))
                    /\ Configured =>
                          IF ~EntriesFound
                          THEN Unwrap(exit').v.kind = "EntryNotFound"
                          ELSE Unwrap(exit').v.kind \in {"MissingField", "EmptySecret"}]_vars
    /\ [][pc # "resolve" => UNCHANGED <<cfg, stored_auth, unlock_secret>>]_vars
    /\ [][requests' # requests => pc = "unlock" \/ requests # <<>>]_vars
    /\ [](requests # <<>> \/ pc = "unlock" =>
            /\ IsSome(stored_auth) /\ IsSome(unlock_secret)
            /\ \A i \in 1..Len(HeldSecrets) : Trim(HeldSecrets[i]) # <<>>)

\* C21 witness: the username of the NAS entry is blank, and the invocation
\* ended with EmptySecret before any request.
C21_Witness ==
    /\ pc = "done"
    /\ requests = <<>>
    /\ IsSome(exit) /\ IsErr(Unwrap(exit))
    /\ Unwrap(exit).v.kind = "EmptySecret"
    /\ Configured /\ EntriesFound /\ FieldsPresent
    /\ Unwrap(cfg.nas).auth_method = "Basic"
    /\ Unwrap(RequiredValues[1]) = <<" ", "\t">>

\* The Authorization header the credential held stands for: HTTP Basic
\* from the username and the password, or Bearer and the API key.
HeaderOfCredential ==
    LET stored == Unwrap(stored_auth)
    IN  IF stored.variant = "Basic"
        THEN [scheme |-> "Basic",
              credentials |-> stored.username \o <<":">> \o stored.password]
        ELSE [scheme |-> "Bearer", credentials |-> stored.key]

\* C22: every request of the invocation (the unlock call, every POST and
\* every GET job-status query) carries the header of the one credential
\* unlock_volume resolved, whose variant is the auth_method of the NAS:
\* Basic gives an HTTP Basic header, ApiKey gives Bearer and the key; and
\* the credential never changes once the first request was issued.
C22_SameCredentialOnEveryRequest ==
    /\ [](Len(headers) = Len(requests))
    /\ [](requests # <<>> =>
            /\ IsSome(stored_auth)
            /\ Unwrap(stored_auth).variant = Unwrap(cfg.nas).auth_method
            /\ \A i \in 1..Len(requests) : headers[i] = HeaderOfCredential)
    /\ [][requests' # requests =>
            /\ IsSome(stored_auth)
            /\ stored_auth' = stored_auth
            /\ headers' = Append(headers, HeaderOfCredential)]_vars

\* C22 witness: the unlock call, a POST query and its GET fallback all
\* carried Bearer and the API key as the entry holds it, padding included.
C22_Witness ==
    /\ Len(requests) >= 3
    /\ requests[2] = Request("POST", JobsPath)
    /\ requests[3] = Request("GET", JobsPath)
    /\ \A i \in 1..3 :
          headers[i] = [scheme |-> "Bearer", credentials |-> <<" ">> \o S_k1 \o <<" ">>]

\* wait_for_job has returned.
WaitEnded == IsSome(wait_result)

\* The job the latest query returned reports SUCCESS, FAILED or ABORTED.
TerminalReported ==
    /\ IsSome(job)
    /\ IsSome(Unwrap(job).state)
    /\ Unwrap(Unwrap(job).state) \in {S_SUCCESS, S_FAILED, S_ABORTED}

\* The latest query failed: neither attempt of get_job gave a job.
QueryErrored ==
    /\ IsNone(job)
    /\ IsSome(post_result) /\ IsErr(Unwrap(post_result))
    /\ IsSome(get_result) /\ IsErr(Unwrap(get_result))

\* C23: wait_for_job has returned exactly when a query reported SUCCESS,
\* FAILED or ABORTED or a query failed, so a reported terminal state ends
\* it and nothing else but a failed query does; and as long as neither
\* happens the loop goes on, whatever the number of polls made and the time
\* spent: it comes to rest only returned, or about to send the query the
\* bound of the model on the polls withholds.
C23_WaitEndsOnlyOnTerminalOrError ==
    /\ [](WaitEnded <=> (TerminalReported \/ QueryErrored))
    /\ [](WaitEnded <=> pc = "done")
    /\ []<>(WaitEnded \/ (pc = "post" /\ polls = MaxPolls))

\* C23 witness: after two sleeps the server reported SUCCESS on the third
\* poll and wait_for_job returned.
C23_Witness ==
    /\ sleeps >= 2
    /\ TerminalReported
    /\ Unwrap(Unwrap(job).state) = S_SUCCESS
    /\ WaitEnded /\ IsOk(Unwrap(wait_result))

\* The line unlock_volume prints for a result without a job id: the
\* unlocked list, else the message, else the bare acceptance.
AcceptanceLine(res) ==
    IF res.unlocked # <<>>
    THEN [fmt |-> "unlocked datasets: {}", args |-> <<Join(res.unlocked, <<",", " ">>)>>]
    ELSE IF IsSome(res.message)
    THEN [fmt |-> "{}", args |-> <<Unwrap(res.message)>>]
    ELSE [fmt |-> "unlock request accepted", args |-> <<>>]

\* The unlock call was answered 2xx with a result whose failed map is empty.
UnlockedWithoutFailures == IsSome(result) /\ Unwrap(result).failed = <<>>

\* C24: when the unlock call is answered 2xx with an empty failed map, a
\* job id in the result sends unlock_volume into wait_for_job, whatever the
\* unlocked list and the message are, and nothing is printed or returned
\* yet; the invocation then succeeds only if the job reported SUCCESS.
\* Without a job id the invocation ends in success at once, printing the
\* unlocked list, else the message, else the bare acceptance.
C24_JobIdBeforeListAndMessage ==
    /\ [][pc = "unlock" /\ UnlockedWithoutFailures' =>
            /\ IsSuccess(Unwrap(last_response').status)
            /\ IF IsSome(Unwrap(result').job_id)
               THEN pc' = "post" /\ exit' = None /\ stdout' = stdout
               ELSE /\ pc' = "done"
                    /\ IsSome(exit') /\ IsOk(Unwrap(exit'))
                    /\ stdout' = Append(stdout, AcceptanceLine(Unwrap(result')))
                    /\ requests' = <<Request("POST", UnlockPath)>>]_vars
    /\ [](UnlockedWithoutFailures /\ IsSome(Unwrap(result).job_id) =>
            /\ pc # "done" => IsNone(exit)
            /\ IsSome(exit) /\ IsOk(Unwrap(exit)) =>
                  /\ IsSome(job)
                  /\ Unwrap(job).id = Unwrap(Unwrap(result).job_id)
                  /\ Unwrap(job).state = Some(S_SUCCESS)
            /\ pc = "done" /\ IsSome(job) /\ Unwrap(job).state = Some(S_SUCCESS) =>
                  IsSome(exit) /\ IsOk(Unwrap(exit)))

\* C24 witness: the result held a job id, an unlocked list and a message;
\* the job was tracked and reported FAILED, and the invocation failed.
C24_Witness ==
    /\ UnlockedWithoutFailures
    /\ IsSome(Unwrap(result).job_id)
    /\ Unwrap(result).unlocked # <<>>
    /\ IsSome(Unwrap(result).message)
    /\ IsSome(job) /\ Unwrap(job).state = Some(S_FAILED)
    /\ pc = "done"
    /\ IsSome(exit) /\ IsErr(Unwrap(exit))
    /\ stdout = <<>>

====
